---- MODULE Spec2Model ----
(***************************************************************************)
(* Accord: a pull-based synchronisation engine.  The model covers the      *)
(* Orchestrator (Accord.HandleNewMessage, HandleRemoteMessage, Status,     *)
(* CheckRemoteState), its three stores (SyncQueue, HistoryStack, State),   *)
(* and the PollListener / PollRequestor protocol state machines.           *)
(*                                                                         *)
(* Threads are triples <<peer, kind, index>>; every goroutine of the       *)
(* program is one thread with a program counter.                           *)
(***************************************************************************)
EXTENDS Integers, Sequences, FiniteSets, TLC

\* ------------------------------------------------------------------ bounds
\* uint64 is modelled with Width bits; arithmetic on the counter wraps.
Width == 7
Modulus == 2 ^ Width

\* number of ingestion goroutines per peer (callers of the Orchestrator)
NumCallers == 2

\* goroutines that each submit one new message, concurrently
NumSubmitters == 5

\* message ids the ingestion side submits
MaxId == 2

\* new local messages created in one run (also the clock's range)
MaxNew == 2

\* calls of HandleRemoteMessage / CheckRemoteState / Status made by callers
MaxCalls == 2

\* calls the ingestion goroutine makes next to a running listener
MaxPeerCalls == 2

\* messages handed in on the polled peer while the two components run, and
\* the largest id among them
MaxLate == 1
MaxLateId == 1

\* components registered with an Accord, goroutines calling Stop and
\* WaitForStop from outside, and the calls each of these makes
NumComps == 2
NumOutsiders == 2
MaxOutsideCalls == 2

\* frames a socket holds in one direction before a send times out
ChanCap == 1
MaxPut == 3
MaxOps == 7

\* requests the client of the listener test sends
MaxRequests == 4

\* replies the server of the requestor test sends
MaxReplies == 3

\* ticks the counting component runs
MaxTicks == 3

\* errors the test hands to its component
MaxErrs == 3

\* ---------------------------------------------------------------- constants
\* capacity of Accord.shutdown (make(chan error, 1))
ShutdownCap == 1

\* capacity of ComponentRunner.stopSignal (make(chan int, 1))
StopCap == 1

\* receive timeouts after which the requestor asks again (reset >= 10)
ResetLimit == 10

Peers == {1, 2}
Other(p) == 3 - p

Callers(p) == {<<p, "ing", i>> : i \in 1..NumCallers}
Submitters(p) == {<<p, "new", i>> : i \in 1..NumSubmitters}
Listener(p) == <<p, "lis", 0>>
Requestor(p) == <<p, "req", 0>>
Client(p) == <<p, "cli", 0>>
\* the components registered with one Accord, the goroutine ComponentRunner.Init
\* starts for each, the goroutine that calls Listen, and the goroutines that
\* call Stop and WaitForStop from outside
Comps == 1..NumComps
Loop(c) == <<1, "loop", c>>
Main == <<1, "main", 0>>
Outsiders == {<<1, "ext", i>> : i \in 1..NumOutsiders}
Tester == <<1, "test", 0>>
Concurrent == <<1, "test", 1>>
RunThreads == {Loop(c) : c \in Comps} \cup {Main} \cup Outsiders
Threads == UNION {Callers(p) \cup Submitters(p) \cup {Listener(p), Requestor(p), Client(p)} :
                     p \in Peers} \cup RunThreads \cup {Tester, Concurrent}
PeerOf(t) == t[1]

NoThread == <<0, "none", 0>>
Ids == 1..MaxId

VARIABLES
    cached,        \* State.cached, per peer
    queue,         \* SyncQueue contents (serialized messages), head first
    history,       \* HistoryStack contents (serialized messages), top first
    processMutex,  \* Accord.processMutex: the holding thread or NoThread
    stackLock,     \* HistoryStack.stackLock: the holding thread or NoThread
    shutdown,      \* Accord.shutdown channel contents
    clock,         \* time.Now() as a logical clock
    pc,            \* position of every thread
    call,          \* the Orchestrator call a thread is in (arguments, locals, result)
    last,          \* per peer, the call of the application that returned most recently
    ncalls,        \* calls made so far by the ingestion goroutines
    lstate,        \* PollListener.state: "recvState" or "sendState"
    reply,         \* PollListener.reply
    rstate,        \* PollRequestor.state
    reset,         \* PollRequestor.reset
    reqCh,         \* per listener: the request frames on their way to it
    repCh,         \* per listener: the reply frames on their way to its requestor
    delivered,     \* per requestor: the messages HandleRemoteMessage accepted
    dequeued,      \* per listener: the messages taken off the queue on "ok"
    stopSignal,    \* per component: ComponentRunner.stopSignal (chan int, 1)
    stopping,      \* per component: ComponentRunner.stopping
    stopped,       \* per component: ComponentRunner.stopped
    hasCleanup,    \* per component: Init was given a cleanup function
    sent,          \* per component: stop signals sent so far
    observed,      \* per component: stop signals the loop has received
    cleanups,      \* per component: runs of the cleanup function
    frame,         \* per goroutine: the runner call it is in and where it returns to
    listenRet,     \* what Listen returned ("none" while it has not)
    test           \* the locals of a test function that drives one store directly

\* the fields of the ComponentRunners and what their callers hold
runVars == <<stopSignal, stopping, stopped, hasCleanup, sent, observed, cleanups,
             frame, listenRet>>

\* the fields of the two components and their sockets
compVars == <<lstate, reply, rstate, reset, reqCh, repCh, delivered, dequeued, runVars, test>>

vars == <<cached, queue, history, processMutex, stackLock, shutdown, clock,
          pc, call, last, ncalls, compVars>>

\* ------------------------------------------------------------------ Message
\* Message{ID, Timestamp, StateAt}; the payload is opaque and left out
NewMsg(id, ts) == [ID |-> id, Timestamp |-> ts, StateAt |-> 0]

\* gob encoding of the struct: the fields in declaration order
Serialize(m) == <<m.ID, m.Timestamp, m.StateAt>>
DeserializeMessage(d) == [ID |-> d[1], Timestamp |-> d[2], StateAt |-> d[3]]

\* the error of DeserializeMessage: the decoder fails on bytes that are not
\* the encoding of a Message
DeserializeErr(d) == IF Len(d) = 3 THEN "nil" ELSE "decode"

\* -------------------------------------------------------------------- State
\* (variant: the id is assigned instead of added)
UpdateCached_Assign(c, id) == id % Modulus

\* (variant: the sum is not reduced to the width of the counter)
UpdateCached_NoWrap(c, id) == c + id

\* state.cached += msg.ID on a uint64
UpdateCached(c, id) == (c + id) % Modulus

\* the side effect of State.Update on the message: StateAt := the counter
\* before the update
UpdateStateAt(m, original) == [m EXCEPT !.StateAt = original]

\* ---------------------------------------------------------------- SyncQueue
\* (variant: the new entry replaces the queue)
Enqueue_Replace(q, m) == <<Serialize(m)>>

Enqueue(q, m) == Append(q, Serialize(m))
Peek(q) == IF q = <<>> THEN <<>> ELSE <<DeserializeMessage(Head(q))>>

\* (variant: everything queued is dropped)
Dequeue_All(q) == <<>>

Dequeue(q) == IF q = <<>> THEN <<>> ELSE Tail(q)

\* what Dequeue returns: the item taken off, decoded; nil on goque.ErrEmpty
DequeueRet(q) == IF q = <<>> THEN <<>> ELSE <<DeserializeMessage(Head(q))>>
Size(q) == Len(q)

\* ------------------------------------------------------------- HistoryStack
\* (variant: the push is lost)
Push_Lost(h, m) == h

Push(h, m) == <<Serialize(m)>> \o h

\* peek(offset): goque's PeekByOffset counts from the top; ErrEmpty becomes
\* (nil, nil), an offset past the bottom is ErrOutOfBounds
peek(h, offset) ==
    IF h = <<>> THEN [msg |-> <<>>, err |-> "nil"]
    ELSE IF offset >= Len(h) THEN [msg |-> <<>>, err |-> "ErrOutOfBounds"]
    ELSE [msg |-> <<DeserializeMessage(h[offset + 1])>>, err |-> "nil"]

\* Pop: what is left on the stack, and the message returned
Pop(h) == IF h = <<>> THEN <<>> ELSE Tail(h)

\* (variant: the oldest entry is returned)
PopRet_Oldest(h) == IF h = <<>> THEN <<>> ELSE <<DeserializeMessage(h[Len(h)])>>

PopRet(h) == IF h = <<>> THEN <<>> ELSE <<DeserializeMessage(Head(h))>>

HistorySize(h) == Len(h)

\* (variant: the stack is reopened without the drop)
Clear_Keep(h) == h

Clear(h) == <<>>

\* ---------------------------------------------------------------- call state
NoMsg == [ID |-> 0, Timestamp |-> 0, StateAt |-> 0]
NoStores == [State |-> 0, ToBeSynced |-> <<>>, History |-> <<>>]
NoStatus == [State |-> 0, ToBeSyncedSize |-> 0, HistorySize |-> 0]
NoCall == [op |-> "none", arg |-> NoMsg, msg |-> NoMsg, remoteState |-> 0,
           shouldProcess |-> FALSE, err |-> "nil", ret |-> FALSE,
           ProcessCount |-> 0, ShouldProcessCount |-> 0,
           fromRemote |-> FALSE,
           pre |-> NoStores, post |-> NoStores, status |-> NoStatus]

\* the three stores of peer p as they are in the current state
Stores(c, q, h) == [State |-> c, ToBeSynced |-> q, History |-> h]

\* Status{ToBeSyncedSize, HistorySize, State}
StatusOf(c, q, h) == [State |-> c, ToBeSyncedSize |-> Size(q), HistorySize |-> Len(h)]

NewCall(p, op, m, rs) ==
    [NoCall EXCEPT !.op = op, !.arg = m, !.msg = m, !.remoteState = rs,
                   !.pre = Stores(cached[p], queue[p], history[p])]

\* (variant: no lock is taken)
CanLock_Always(t) == TRUE

\* processMutex.Lock() succeeds
CanLock(t) == processMutex[PeerOf(t)] = NoThread

\* return with the deferred processMutex.Unlock()
\* (the stores as the call leaves them are recorded with the result)
\* where a goroutine goes on after an Orchestrator call: an ingestion
\* goroutine is ready for its next call, a submitter is finished, and a
\* component looks at the result
AfterCall(t) == IF t[2] = "ing" THEN "idle" ELSE IF t[2] = "new" THEN "done" ELSE "ret"

Returned(t, r) ==
    LET p == PeerOf(t) IN
    /\ last' = [last EXCEPT ![p] = IF AfterCall(t) = "ret" THEN @ ELSE r]
    /\ call' = [call EXCEPT ![t] = IF AfterCall(t) = "ret" THEN r ELSE NoCall]
    /\ pc' = [pc EXCEPT ![t] = AfterCall(t)]

\* return when the counter was not changed by the last step and the history
\* is left as h
Return(t, c, h) ==
    LET p == PeerOf(t) IN
    /\ processMutex' = [processMutex EXCEPT ![p] = NoThread]
    /\ Returned(t, [c EXCEPT !.post = Stores(cached[p], queue[p], h)])

\* a failing step: log, then accord.Shutdown(err), then return err
Fail(t, e) ==
    /\ call' = [call EXCEPT ![t].err = e]
    /\ pc' = [pc EXCEPT ![t] = "Shutdown"]
    /\ UNCHANGED last

\* Accord.Shutdown: accord.shutdown <- err, blocking while the channel is
\* full; the caller then returns err (CheckRemoteState returns true, err)
AccordShutdown(t) ==
    LET p == PeerOf(t) IN
    /\ pc[t] = "Shutdown"
    /\ Len(shutdown[p]) < ShutdownCap
    /\ shutdown' = [shutdown EXCEPT ![p] = Append(@, call[t].err)]
    /\ Return(t, [call[t] EXCEPT !.ret = (call[t].op = "CheckRemoteState")], history[p])
    /\ UNCHANGED <<cached, queue, history, stackLock, clock, ncalls>>

\* --------------------------------------------------------- HandleNewMessage
\* Lock, then manager.Process(*msg, false) succeeds
HNM_Process(t, m) ==
    LET p == PeerOf(t) IN
    /\ CanLock(t)
    /\ processMutex' = [processMutex EXCEPT ![p] = t]
    /\ call' = [call EXCEPT ![t] =
                   [NewCall(p, "HandleNewMessage", m, 0) EXCEPT !.ProcessCount = 1]]
    /\ pc' = [pc EXCEPT ![t] = "HNM_Update"]
    /\ UNCHANGED last

\* Lock, then manager.Process(*msg, false) returns an error
HNM_ProcessErr(t, m) ==
    LET p == PeerOf(t) IN
    /\ CanLock(t)
    /\ processMutex' = [processMutex EXCEPT ![p] = t]
    /\ call' = [call EXCEPT ![t] =
                   [NewCall(p, "HandleNewMessage", m, 0)
                       EXCEPT !.ProcessCount = 1, !.err = "process"]]
    /\ pc' = [pc EXCEPT ![t] = "Shutdown"]
    /\ UNCHANGED last

\* accord.state.Update(msg) succeeds
HNM_Update(t) ==
    LET p == PeerOf(t) IN
    /\ pc[t] = "HNM_Update"
    /\ cached' = [cached EXCEPT ![p] = UpdateCached(@, call[t].msg.ID)]
    /\ call' = [call EXCEPT ![t].msg = UpdateStateAt(@, cached[p])]
    /\ pc' = [pc EXCEPT ![t] = "HNM_Enqueue"]
    /\ UNCHANGED <<queue, history, processMutex, stackLock, shutdown, clock, ncalls, last>>

\* accord.state.Update(msg) fails: the cache is rolled back
HNM_UpdateErr(t) ==
    /\ pc[t] = "HNM_Update"
    /\ Fail(t, "state")
    /\ UNCHANGED <<cached, queue, history, processMutex, stackLock, shutdown, clock, ncalls>>

\* accord.ToBeSynced.Enqueue(msg) succeeds
HNM_Enqueue(t) ==
    LET p == PeerOf(t) IN
    /\ pc[t] = "HNM_Enqueue"
    /\ queue' = [queue EXCEPT ![p] = Enqueue(@, call[t].msg)]
    /\ pc' = [pc EXCEPT ![t] = "HNM_Push"]
    /\ UNCHANGED <<cached, history, processMutex, stackLock, shutdown, clock, call, ncalls, last>>

\* (variant: a failed Enqueue takes the counter back to its old value)
HNM_EnqueueErr_Rollback(t) ==
    /\ pc[t] = "HNM_Enqueue"
    /\ cached' = [cached EXCEPT ![PeerOf(t)] = call[t].pre.State]
    /\ Fail(t, "enqueue")
    /\ UNCHANGED <<queue, history, processMutex, stackLock, shutdown, clock, ncalls>>

\* accord.ToBeSynced.Enqueue(msg) fails
HNM_EnqueueErr(t) ==
    /\ pc[t] = "HNM_Enqueue"
    /\ Fail(t, "enqueue")
    /\ UNCHANGED <<cached, queue, history, processMutex, stackLock, shutdown, clock, ncalls>>

\* accord.history.Push(msg) succeeds; return nil
HNM_Push(t) ==
    LET p == PeerOf(t) IN
    /\ pc[t] = "HNM_Push"
    /\ stackLock[p] = NoThread
    /\ history' = [history EXCEPT ![p] = Push(@, call[t].msg)]
    /\ Return(t, call[t], Push(history[p], call[t].msg))
    /\ UNCHANGED <<cached, queue, stackLock, shutdown, clock, ncalls>>

HNM_PushErr(t) ==
    /\ pc[t] = "HNM_Push"
    /\ stackLock[PeerOf(t)] = NoThread
    /\ Fail(t, "push")
    /\ UNCHANGED <<cached, queue, history, processMutex, stackLock, shutdown, clock, ncalls>>

\* ------------------------------------------------------ HandleRemoteMessage
\* createHistoryIterator: the size is read, then stackLock is taken
createHistoryIterator(h) == [pos |-> 0, size |-> Len(h)]

\* Lock, then the comparison of the counter with msg.StateAt; in the
\* diverged case the history iterator is created (stackLock.Lock())
HRM_Begin(t, m) ==
    LET p == PeerOf(t)
        c == NewCall(p, "HandleRemoteMessage", m, 0) IN
    /\ CanLock(t)
    /\ processMutex' = [processMutex EXCEPT ![p] = t]
    /\ IF cached[p] = m.StateAt
         THEN /\ call' = [call EXCEPT ![t] = [c EXCEPT !.shouldProcess = TRUE]]
              /\ pc' = [pc EXCEPT ![t] = "HRM_Process"]
              /\ UNCHANGED stackLock
         ELSE /\ stackLock[p] = NoThread
              /\ stackLock' = [stackLock EXCEPT ![p] = t]
              /\ call' = [call EXCEPT ![t] = c]
              /\ pc' = [pc EXCEPT ![t] = "HRM_ShouldProcess"]
    /\ UNCHANGED last

\* (variant: Process is called whatever ShouldProcess answered)
HRM_ShouldProcess_Ignore(t, b) ==
    LET p == PeerOf(t) IN
    /\ pc[t] = "HRM_ShouldProcess"
    /\ call' = [call EXCEPT ![t].shouldProcess = b,
                            ![t].ShouldProcessCount = @ + 1]
    /\ stackLock' = [stackLock EXCEPT ![p] = NoThread]
    /\ pc' = [pc EXCEPT ![t] = "HRM_Process"]
    /\ UNCHANGED <<cached, queue, history, processMutex, shutdown, clock, ncalls, last>>

\* (variant: it.close() is left out)
HRM_ShouldProcess_NoClose(t, b) ==
    /\ pc[t] = "HRM_ShouldProcess"
    /\ call' = [call EXCEPT ![t].shouldProcess = b,
                            ![t].ShouldProcessCount = @ + 1]
    /\ pc' = [pc EXCEPT ![t] = IF b THEN "HRM_Process" ELSE "HRM_Update"]
    /\ UNCHANGED <<cached, queue, history, processMutex, stackLock, shutdown, clock,
                   ncalls, last>>

\* manager.ShouldProcess(*msg, it) returns b, then it.close()
HRM_ShouldProcess(t, b) ==
    LET p == PeerOf(t) IN
    /\ pc[t] = "HRM_ShouldProcess"
    /\ call' = [call EXCEPT ![t].shouldProcess = b,
                            ![t].ShouldProcessCount = @ + 1]
    /\ stackLock' = [stackLock EXCEPT ![p] = NoThread]
    /\ pc' = [pc EXCEPT ![t] = IF b THEN "HRM_Process" ELSE "HRM_Update"]
    /\ UNCHANGED <<cached, queue, history, processMutex, shutdown, clock, ncalls, last>>

\* manager.Process(*msg, true) succeeds
HRM_Process(t) ==
    /\ pc[t] = "HRM_Process"
    /\ call' = [call EXCEPT ![t].ProcessCount = @ + 1, ![t].fromRemote = TRUE]
    /\ pc' = [pc EXCEPT ![t] = "HRM_Update"]
    /\ UNCHANGED <<cached, queue, history, processMutex, stackLock, shutdown, clock, ncalls, last>>

HRM_ProcessErr(t) ==
    /\ pc[t] = "HRM_Process"
    /\ call' = [call EXCEPT ![t].ProcessCount = @ + 1, ![t].fromRemote = TRUE,
                            ![t].err = "process"]
    /\ pc' = [pc EXCEPT ![t] = "Shutdown"]
    /\ UNCHANGED <<cached, queue, history, processMutex, stackLock, shutdown, clock, ncalls, last>>

\* (variant: the counter is advanced only for a message that was applied)
HRM_Update_Applied(t) ==
    LET p == PeerOf(t)
        c == [call[t] EXCEPT !.msg = UpdateStateAt(@, cached[p])] IN
    /\ pc[t] = "HRM_Update"
    /\ IF call[t].shouldProcess
         THEN /\ cached' = [cached EXCEPT ![p] = UpdateCached(@, call[t].msg.ID)]
              /\ call' = [call EXCEPT ![t] = c]
              /\ pc' = [pc EXCEPT ![t] = "HRM_Push"]
              /\ UNCHANGED <<processMutex, last>>
         ELSE /\ UNCHANGED cached
              /\ processMutex' = [processMutex EXCEPT ![p] = NoThread]
              /\ Returned(t, [c EXCEPT !.post = Stores(cached[p], queue[p], history[p])])
    /\ UNCHANGED <<queue, history, stackLock, shutdown, clock, ncalls>>

\* accord.state.Update(msg) succeeds; without a push this is the return
HRM_Update(t) ==
    LET p == PeerOf(t)
        c == [call[t] EXCEPT !.msg = UpdateStateAt(@, cached[p])] IN
    /\ pc[t] = "HRM_Update"
    /\ cached' = [cached EXCEPT ![p] = UpdateCached(@, call[t].msg.ID)]
    /\ IF call[t].shouldProcess
         THEN /\ call' = [call EXCEPT ![t] = c]
              /\ pc' = [pc EXCEPT ![t] = "HRM_Push"]
              /\ UNCHANGED <<processMutex, last>>
         ELSE /\ processMutex' = [processMutex EXCEPT ![p] = NoThread]
              /\ Returned(t, [c EXCEPT !.post =
                     Stores(UpdateCached(cached[p], call[t].msg.ID), queue[p], history[p])])
    /\ UNCHANGED <<queue, history, stackLock, shutdown, clock, ncalls>>

HRM_UpdateErr(t) ==
    /\ pc[t] = "HRM_Update"
    /\ Fail(t, "state")
    /\ UNCHANGED <<cached, queue, history, processMutex, stackLock, shutdown, clock, ncalls>>

\* accord.history.Push(msg) succeeds; return nil
HRM_Push(t) ==
    LET p == PeerOf(t) IN
    /\ pc[t] = "HRM_Push"
    /\ stackLock[p] = NoThread
    /\ history' = [history EXCEPT ![p] = Push(@, call[t].msg)]
    /\ Return(t, call[t], Push(history[p], call[t].msg))
    /\ UNCHANGED <<cached, queue, stackLock, shutdown, clock, ncalls>>

HRM_PushErr(t) ==
    /\ pc[t] = "HRM_Push"
    /\ stackLock[PeerOf(t)] = NoThread
    /\ Fail(t, "push")
    /\ UNCHANGED <<cached, queue, history, processMutex, stackLock, shutdown, clock, ncalls>>

\* ------------------------------------------------------------------- Status
Status_Begin(t) ==
    LET p == PeerOf(t) IN
    /\ CanLock(t)
    /\ processMutex' = [processMutex EXCEPT ![p] = t]
    /\ call' = [call EXCEPT ![t] = NewCall(p, "Status", NoMsg, 0)]
    /\ pc' = [pc EXCEPT ![t] = "Status_Read"]
    /\ UNCHANGED last

\* the three sizes are read and returned
Status_Read(t) ==
    LET p == PeerOf(t) IN
    /\ pc[t] = "Status_Read"
    /\ stackLock[p] = NoThread
    /\ Return(t, [call[t] EXCEPT !.status = StatusOf(cached[p], queue[p], history[p])],
              history[p])
    /\ UNCHANGED <<cached, queue, history, stackLock, shutdown, clock, ncalls>>

\* --------------------------------------------------------- CheckRemoteState
CRS_Begin(t, remoteState) ==
    LET p == PeerOf(t) IN
    /\ CanLock(t)
    /\ processMutex' = [processMutex EXCEPT ![p] = t]
    /\ call' = [call EXCEPT ![t] = NewCall(p, "CheckRemoteState", NoMsg, remoteState)]
    /\ pc' = [pc EXCEPT ![t] = "CRS_Check"]
    /\ UNCHANGED last

\* the value CheckRemoteState returns when no error occurs
CRS_Result(remoteState, current) == FALSE

\* the comparison, the Clear when it applies, and the return
CRS_Check(t) ==
    LET p == PeerOf(t) IN
    /\ pc[t] = "CRS_Check"
    /\ stackLock[p] = NoThread
    /\ IF call[t].remoteState = cached[p] /\ Len(history[p]) > 0
         THEN /\ history' = [history EXCEPT ![p] = Clear(@)]
              /\ Return(t, [call[t] EXCEPT !.ret = CRS_Result(call[t].remoteState, cached[p])],
                        Clear(history[p]))
         ELSE /\ UNCHANGED history
              /\ Return(t, [call[t] EXCEPT !.ret = CRS_Result(call[t].remoteState, cached[p])],
                        history[p])
    /\ UNCHANGED <<cached, queue, stackLock, shutdown, clock, ncalls>>

\* history.Clear() fails
CRS_ClearErr(t) ==
    LET p == PeerOf(t) IN
    /\ pc[t] = "CRS_Check"
    /\ stackLock[p] = NoThread
    /\ call[t].remoteState = cached[p] /\ Len(history[p]) > 0
    /\ Fail(t, "clear")
    /\ UNCHANGED <<cached, queue, history, processMutex, stackLock, shutdown, clock, ncalls>>

\* ------------------------------------------------- the ingestion goroutines
\* messages a remote peer may hand over: any id, and a StateAt that does or
\* does not match the local counter
RemoteMsgs(p) ==
    {[ID |-> id, Timestamp |-> 0, StateAt |-> s] :
        id \in Ids, s \in {cached[p], (cached[p] + 1) % Modulus}}

RemoteStates(p) == {cached[p], (cached[p] + 1) % Modulus}

\* NewMessage stamps the message with the current time
CallHandleNewMessage(t, id) ==
    /\ pc[t] = "idle"
    /\ clock < MaxNew
    /\ clock' = clock + 1
    /\ HNM_Process(t, NewMsg(id, clock + 1))
    /\ UNCHANGED <<cached, queue, history, stackLock, shutdown, ncalls>>

CallHandleNewMessageErr(t, id) ==
    /\ pc[t] = "idle"
    /\ clock < MaxNew
    /\ clock' = clock + 1
    /\ HNM_ProcessErr(t, NewMsg(id, clock + 1))
    /\ UNCHANGED <<cached, queue, history, stackLock, shutdown, ncalls>>

CallHandleRemoteMessage(t, m) ==
    /\ pc[t] = "idle"
    /\ ncalls < MaxCalls
    /\ ncalls' = ncalls + 1
    /\ HRM_Begin(t, m)
    /\ UNCHANGED <<cached, queue, history, shutdown, clock>>

CallStatus(t) ==
    /\ pc[t] = "idle"
    /\ ncalls < MaxCalls
    /\ ncalls' = ncalls + 1
    /\ Status_Begin(t)
    /\ UNCHANGED <<cached, queue, history, stackLock, shutdown, clock>>

CallCheckRemoteState(t, rs) ==
    /\ pc[t] = "idle"
    /\ ncalls < MaxCalls
    /\ ncalls' = ncalls + 1
    /\ CRS_Begin(t, rs)
    /\ UNCHANGED <<cached, queue, history, stackLock, shutdown, clock>>

\* the steps inside HandleNewMessage, with and without failures
HNM_Step(t) ==
    \/ HNM_Update(t)
    \/ HNM_Enqueue(t)
    \/ HNM_Push(t)

HNM_Fault(t) ==
    \/ HNM_UpdateErr(t)
    \/ HNM_EnqueueErr(t)
    \/ HNM_PushErr(t)
    \/ AccordShutdown(t)

\* the steps inside HandleRemoteMessage
HRM_Step(t) ==
    \/ HRM_ShouldProcess(t, TRUE)
    \/ HRM_ShouldProcess(t, FALSE)
    \/ HRM_Process(t)
    \/ HRM_Update(t)
    \/ HRM_Push(t)

HRM_Fault(t) ==
    \/ HRM_ProcessErr(t)
    \/ HRM_UpdateErr(t)
    \/ HRM_PushErr(t)

OrchStep(t) ==
    \/ HNM_Step(t)
    \/ HRM_Step(t)
    \/ Status_Read(t)
    \/ CRS_Check(t)

OrchFault(t) ==
    \/ HNM_Fault(t)
    \/ HRM_Fault(t)
    \/ CRS_ClearErr(t)

CallerStep(t) ==
    \/ \E id \in Ids : CallHandleNewMessage(t, id)
    \/ \E id \in Ids : CallHandleNewMessageErr(t, id)
    \/ \E m \in RemoteMsgs(PeerOf(t)) : CallHandleRemoteMessage(t, m)
    \/ CallStatus(t)
    \/ \E rs \in RemoteStates(PeerOf(t)) : CallCheckRemoteState(t, rs)

\* ------------------------------------------------------------ PollListener
\* binary.LittleEndian.PutUint64 / Uint64: eight bytes, lowest first
RECURSIVE PutBytes(_, _)
PutBytes(v, n) == IF n = 0 THEN <<>> ELSE <<v % 256>> \o PutBytes(v \div 256, n - 1)
PutUint64(v) == PutBytes(v, 8)

RECURSIVE GetBytes(_, _)
GetBytes(b, i) == IF i > Len(b) THEN 0 ELSE b[i] + 256 * GetBytes(b, i + 1)
Uint64(b) == GetBytes(b, 1) % Modulus

\* everything but the listener's own fields and sockets
lisFrame == <<cached, history, processMutex, stackLock, shutdown, clock, call, last,
              ncalls, rstate, reset, delivered, runVars, test>>

\* sock.Recv times out: ExpectedOrShutdown(err, ZMQTimeout) and return
LRecvTimeout(p) ==
    /\ pc[Listener(p)] = "tick"
    /\ lstate[p] = "recvState"
    /\ UNCHANGED vars

\* sock.Recv returns a request; an unknown one is answered at once
LRecv(p) ==
    LET t == Listener(p)
        msg == Head(reqCh[p]) IN
    /\ pc[t] = "tick"
    /\ lstate[p] = "recvState"
    /\ reqCh[p] # <<>>
    /\ reqCh' = [reqCh EXCEPT ![p] = Tail(@)]
    /\ IF msg = "send"
         THEN /\ pc' = [pc EXCEPT ![t] = "L_Peek"]
              /\ UNCHANGED <<reply, lstate>>
         ELSE IF msg = "ok"
         THEN /\ pc' = [pc EXCEPT ![t] = "L_Dequeue"]
              /\ UNCHANGED <<reply, lstate>>
         ELSE /\ reply' = [reply EXCEPT ![p] = <<"unknown">>]
              /\ lstate' = [lstate EXCEPT ![p] = "sendState"]
              /\ UNCHANGED pc
    /\ UNCHANGED <<lisFrame, queue, repCh, dequeued>>

\* (variant: the message is taken off the queue as it is sent)
LPeekMsg_Pop(p) ==
    LET t == Listener(p) IN
    /\ pc[t] = "L_Peek"
    /\ Peek(queue[p]) # <<>>
    /\ reply' = [reply EXCEPT ![p] = <<"msg", Serialize(Peek(queue[p])[1])>>]
    /\ queue' = [queue EXCEPT ![p] = Tail(@)]
    /\ lstate' = [lstate EXCEPT ![p] = "sendState"]
    /\ pc' = [pc EXCEPT ![t] = "tick"]
    /\ UNCHANGED <<lisFrame, reqCh, repCh, dequeued>>

\* case "send": ToBeSynced.Peek() finds a message, which is serialized
LPeekMsg(p) ==
    LET t == Listener(p) IN
    /\ pc[t] = "L_Peek"
    /\ Peek(queue[p]) # <<>>
    /\ reply' = [reply EXCEPT ![p] = <<"msg", Serialize(Peek(queue[p])[1])>>]
    /\ lstate' = [lstate EXCEPT ![p] = "sendState"]
    /\ pc' = [pc EXCEPT ![t] = "tick"]
    /\ UNCHANGED <<lisFrame, queue, reqCh, repCh, dequeued>>

\* case "send": ToBeSynced.Peek() returns an error
LPeekErr(p) ==
    LET t == Listener(p) IN
    /\ pc[t] = "L_Peek"
    /\ reply' = [reply EXCEPT ![p] = <<"error", "queue read">>]
    /\ lstate' = [lstate EXCEPT ![p] = "sendState"]
    /\ pc' = [pc EXCEPT ![t] = "tick"]
    /\ UNCHANGED <<lisFrame, queue, reqCh, repCh, dequeued>>

\* case "send": msg.Serialize() returns an error
LSerializeErr(p) ==
    LET t == Listener(p) IN
    /\ pc[t] = "L_Peek"
    /\ Peek(queue[p]) # <<>>
    /\ reply' = [reply EXCEPT ![p] = <<"error", "serialize">>]
    /\ lstate' = [lstate EXCEPT ![p] = "sendState"]
    /\ pc' = [pc EXCEPT ![t] = "tick"]
    /\ UNCHANGED <<lisFrame, queue, reqCh, repCh, dequeued>>

\* case "send": ToBeSynced.Peek() finds the queue empty
LPeekEmpty(p) ==
    LET t == Listener(p) IN
    /\ pc[t] = "L_Peek"
    /\ Peek(queue[p]) = <<>>
    /\ pc' = [pc EXCEPT ![t] = "L_Status"]
    /\ UNCHANGED <<lisFrame, queue, reqCh, repCh, dequeued, lstate, reply>>

\* acrd.Status() is entered
LStatus(p) ==
    LET t == Listener(p) IN
    /\ pc[t] = "L_Status"
    /\ Status_Begin(t)
    /\ UNCHANGED <<cached, queue, history, stackLock, shutdown, clock, ncalls, compVars>>

\* (variant: the reply carries the size of the queue)
LReplyEmpty_Size(p) ==
    LET t == Listener(p) IN
    /\ pc[t] = "ret"
    /\ call[t].op = "Status"
    /\ reply' = [reply EXCEPT ![p] = <<"empty", PutUint64(call[t].status.ToBeSyncedSize)>>]
    /\ lstate' = [lstate EXCEPT ![p] = "sendState"]
    /\ pc' = [pc EXCEPT ![t] = "tick"]
    /\ call' = [call EXCEPT ![t] = NoCall]
    /\ UNCHANGED <<cached, queue, history, processMutex, stackLock, shutdown, clock,
                   last, ncalls, rstate, reset, reqCh, repCh, delivered, dequeued, runVars, test>>

\* the reply ["empty", state] is built from the value Status returned
LReplyEmpty(p) ==
    LET t == Listener(p) IN
    /\ pc[t] = "ret"
    /\ call[t].op = "Status"
    /\ reply' = [reply EXCEPT ![p] = <<"empty", PutUint64(call[t].status.State)>>]
    /\ lstate' = [lstate EXCEPT ![p] = "sendState"]
    /\ pc' = [pc EXCEPT ![t] = "tick"]
    /\ call' = [call EXCEPT ![t] = NoCall]
    /\ UNCHANGED <<cached, queue, history, processMutex, stackLock, shutdown, clock,
                   last, ncalls, rstate, reset, reqCh, repCh, delivered, dequeued, runVars, test>>

\* (variant: an "ok" that finds the queue empty is not answered "deleted")
LDequeue_Empty(p) ==
    LET t == Listener(p) IN
    /\ pc[t] = "L_Dequeue"
    /\ queue' = [queue EXCEPT ![p] = Dequeue(@)]
    /\ dequeued' = [dequeued EXCEPT ![p] =
                        IF queue[p] = <<>> THEN @ ELSE @ \cup {Head(queue[p])}]
    /\ reply' = [reply EXCEPT ![p] = IF queue[p] = <<>> THEN <<"empty">> ELSE <<"deleted">>]
    /\ lstate' = [lstate EXCEPT ![p] = "sendState"]
    /\ pc' = [pc EXCEPT ![t] = "tick"]
    /\ UNCHANGED <<lisFrame, reqCh, repCh>>

\* case "ok": ToBeSynced.Dequeue(), answered "deleted"
LDequeue(p) ==
    LET t == Listener(p) IN
    /\ pc[t] = "L_Dequeue"
    /\ queue' = [queue EXCEPT ![p] = Dequeue(@)]
    /\ dequeued' = [dequeued EXCEPT ![p] =
                        IF queue[p] = <<>> THEN @ ELSE @ \cup {Head(queue[p])}]
    /\ reply' = [reply EXCEPT ![p] = <<"deleted">>]
    /\ lstate' = [lstate EXCEPT ![p] = "sendState"]
    /\ pc' = [pc EXCEPT ![t] = "tick"]
    /\ UNCHANGED <<lisFrame, reqCh, repCh>>

\* case "ok": ToBeSynced.Dequeue() returns an error, which is logged with
\* logrus' Fatal: the entry is written and the process exits, so the
\* SendMessage("error", "dequeue") and the Shutdown after it are not reached
LDequeueErr(p) ==
    LET t == Listener(p) IN
    /\ pc[t] = "L_Dequeue"
    /\ pc' = [u \in DOMAIN pc |->
                 IF PeerOf(u) = p /\ u[2] # "cli" /\ pc[u] # "off" THEN "exit" ELSE pc[u]]
    /\ UNCHANGED <<lisFrame, queue, reqCh, repCh, lstate, reply, dequeued>>

\* sendState: sock.SendMessage(reply...) succeeds
LSend(p) ==
    /\ pc[Listener(p)] = "tick"
    /\ lstate[p] = "sendState"
    /\ Len(repCh[p]) < ChanCap
    /\ repCh' = [repCh EXCEPT ![p] = Append(@, reply[p])]
    /\ lstate' = [lstate EXCEPT ![p] = "recvState"]
    /\ UNCHANGED <<lisFrame, pc, queue, reqCh, reply, dequeued>>

\* (variant: after a send timeout the reply is given up)
LSendTimeout_Drop(p) ==
    /\ pc[Listener(p)] = "tick"
    /\ lstate[p] = "sendState"
    /\ lstate' = [lstate EXCEPT ![p] = "recvState"]
    /\ UNCHANGED <<lisFrame, pc, queue, reqCh, repCh, reply, dequeued>>

\* sendState: sock.SendMessage times out and is tried again on the next tick
LSendTimeout(p) ==
    /\ pc[Listener(p)] = "tick"
    /\ lstate[p] = "sendState"
    /\ UNCHANGED vars

ListenerStep(p) ==
    \/ LRecvTimeout(p)
    \/ LRecv(p)
    \/ LPeekMsg(p)
    \/ LPeekEmpty(p)
    \/ LStatus(p)
    \/ Status_Read(Listener(p)) /\ UNCHANGED compVars
    \/ LReplyEmpty(p)
    \/ LDequeue(p)
    \/ LSend(p)
    \/ LSendTimeout(p)

\* ----------------------------------------------------------- PollRequestor
\* everything but the requestor's own fields and sockets
reqFrame == <<cached, queue, history, processMutex, stackLock, shutdown, clock, last,
              ncalls, lstate, reply, dequeued, runVars, test>>

\* a message is known by its id and its timestamp
MsgKey(m) == <<m.ID, m.Timestamp>>

\* requestMsgState: reset = 0 and sock.Send("send") succeeds
RRequest(q) ==
    LET t == Requestor(q)
        p == Other(q) IN
    /\ pc[t] = "tick"
    /\ rstate[q] = "requestMsgState"
    /\ Len(reqCh[p]) < ChanCap
    /\ reset' = [reset EXCEPT ![q] = 0]
    /\ reqCh' = [reqCh EXCEPT ![p] = Append(@, "send")]
    /\ rstate' = [rstate EXCEPT ![q] = "receiveState"]
    /\ UNCHANGED <<reqFrame, pc, call, repCh, delivered>>

\* requestMsgState: sock.Send times out; the socket is closed and a new one
\* created, which may discard the replies the old one had not handed over
RRequestTimeout(q, discard) ==
    LET t == Requestor(q)
        p == Other(q) IN
    /\ pc[t] = "tick"
    /\ rstate[q] = "requestMsgState"
    /\ reset' = [reset EXCEPT ![q] = 0]
    /\ repCh' = [repCh EXCEPT ![p] = IF discard THEN <<>> ELSE @]
    /\ UNCHANGED <<reqFrame, pc, call, reqCh, rstate, delivered>>

\* receiveState: reset >= 10, back to requestMsgState
RGiveUp(q) ==
    /\ pc[Requestor(q)] = "tick"
    /\ rstate[q] = "receiveState"
    /\ reset[q] >= ResetLimit
    /\ rstate' = [rstate EXCEPT ![q] = "requestMsgState"]
    /\ UNCHANGED <<reqFrame, pc, call, reqCh, repCh, reset, delivered>>

\* receiveState: sock.RecvMessageBytes times out, reset++
RRecvTimeout(q) ==
    /\ pc[Requestor(q)] = "tick"
    /\ rstate[q] = "receiveState"
    /\ reset[q] < ResetLimit
    /\ reset' = [reset EXCEPT ![q] = @ + 1]
    /\ UNCHANGED <<reqFrame, pc, call, reqCh, repCh, rstate, delivered>>

\* the reply ["error", "dequeue"]
IsDequeueError(data) == data[1] = "error" /\ Len(data) >= 2 /\ data[2] = "dequeue"

\* receiveState: a reply arrives; a "msg" that decodes and an "empty" with a
\* counter lead into the Orchestrator, everything else but the dequeue error
\* straight back to requestMsgState
RRecv(q) ==
    LET t == Requestor(q)
        p == Other(q)
        data == Head(repCh[p]) IN
    /\ pc[t] = "tick"
    /\ rstate[q] = "receiveState"
    /\ reset[q] < ResetLimit
    /\ repCh[p] # <<>>
    /\ ~IsDequeueError(data)
    /\ repCh' = [repCh EXCEPT ![p] = Tail(@)]
    /\ IF data[1] = "msg" /\ Len(data) >= 2 /\ DeserializeErr(data[2]) = "nil"
         THEN /\ call' = [call EXCEPT ![t] =
                             [NoCall EXCEPT !.msg = DeserializeMessage(data[2])]]
              /\ pc' = [pc EXCEPT ![t] = "R_HandleRemoteMessage"]
              /\ UNCHANGED rstate
         ELSE IF data[1] = "empty" /\ Len(data) >= 2
         THEN /\ call' = [call EXCEPT ![t] =
                             [NoCall EXCEPT !.remoteState = Uint64(data[2])]]
              /\ pc' = [pc EXCEPT ![t] = "R_CheckRemoteState"]
              /\ UNCHANGED rstate
         ELSE /\ rstate' = [rstate EXCEPT ![q] = "requestMsgState"]
              /\ UNCHANGED <<pc, call>>
    /\ UNCHANGED <<reqFrame, reqCh, reset, delivered>>

\* receiveState: the reply is ["error", "dequeue"]; log.Fatal ends the process
\* before requestor.Shutdown is reached
RRecvDequeueError(q) ==
    LET t == Requestor(q)
        p == Other(q) IN
    /\ pc[t] = "tick"
    /\ rstate[q] = "receiveState"
    /\ reset[q] < ResetLimit
    /\ repCh[p] # <<>>
    /\ IsDequeueError(Head(repCh[p]))
    /\ repCh' = [repCh EXCEPT ![p] = Tail(@)]
    /\ pc' = [u \in DOMAIN pc |->
                 IF PeerOf(u) = q /\ u[2] # "cli" /\ pc[u] # "off" THEN "exit" ELSE pc[u]]
    /\ UNCHANGED <<reqFrame, call, reqCh, rstate, reset, delivered>>

\* acrd.HandleRemoteMessage(msg) is entered
RHandleRemoteMessage(q) ==
    LET t == Requestor(q) IN
    /\ pc[t] = "R_HandleRemoteMessage"
    /\ HRM_Begin(t, call[t].msg)
    /\ UNCHANGED <<cached, queue, history, shutdown, clock, ncalls, compVars>>

\* (variant: the result of HandleRemoteMessage is not looked at)
RHandled_Always(q) ==
    LET t == Requestor(q) IN
    /\ pc[t] = "ret"
    /\ call[t].op = "HandleRemoteMessage"
    /\ rstate' = [rstate EXCEPT ![q] = "sendOKState"]
    /\ delivered' = [delivered EXCEPT ![q] = @ \cup {MsgKey(call[t].msg)}]
    /\ pc' = [pc EXCEPT ![t] = "tick"]
    /\ call' = [call EXCEPT ![t] = NoCall]
    /\ UNCHANGED <<reqFrame, reqCh, repCh, reset>>

\* HandleRemoteMessage has returned: sendOKState on success, requestMsgState
\* on an error
RHandled(q) ==
    LET t == Requestor(q) IN
    /\ pc[t] = "ret"
    /\ call[t].op = "HandleRemoteMessage"
    /\ IF call[t].err = "nil"
         THEN /\ rstate' = [rstate EXCEPT ![q] = "sendOKState"]
              /\ delivered' = [delivered EXCEPT ![q] = @ \cup {MsgKey(call[t].msg)}]
         ELSE /\ rstate' = [rstate EXCEPT ![q] = "requestMsgState"]
              /\ UNCHANGED delivered
    /\ pc' = [pc EXCEPT ![t] = "tick"]
    /\ call' = [call EXCEPT ![t] = NoCall]
    /\ UNCHANGED <<reqFrame, reqCh, repCh, reset>>

\* acrd.CheckRemoteState(state) is entered
RCheckRemoteState(q) ==
    LET t == Requestor(q) IN
    /\ pc[t] = "R_CheckRemoteState"
    /\ CRS_Begin(t, call[t].remoteState)
    /\ UNCHANGED <<cached, queue, history, stackLock, shutdown, clock, ncalls, compVars>>

\* (variant: the requestor keeps waiting for a reply after the check)
RChecked_Stay(q) ==
    LET t == Requestor(q) IN
    /\ pc[t] = "ret"
    /\ call[t].op = "CheckRemoteState"
    /\ pc' = [pc EXCEPT ![t] = "tick"]
    /\ call' = [call EXCEPT ![t] = NoCall]
    /\ UNCHANGED <<reqFrame, reqCh, repCh, rstate, reset, delivered>>

\* CheckRemoteState has returned (its result is dropped): sleep WaitOnEmpty,
\* then requestMsgState
RChecked(q) ==
    LET t == Requestor(q) IN
    /\ pc[t] = "ret"
    /\ call[t].op = "CheckRemoteState"
    /\ rstate' = [rstate EXCEPT ![q] = "requestMsgState"]
    /\ pc' = [pc EXCEPT ![t] = "tick"]
    /\ call' = [call EXCEPT ![t] = NoCall]
    /\ UNCHANGED <<reqFrame, reqCh, repCh, reset, delivered>>

\* sendOKState: sock.Send("ok") succeeds
RSendOK(q) ==
    LET p == Other(q) IN
    /\ pc[Requestor(q)] = "tick"
    /\ rstate[q] = "sendOKState"
    /\ Len(reqCh[p]) < ChanCap
    /\ reqCh' = [reqCh EXCEPT ![p] = Append(@, "ok")]
    /\ rstate' = [rstate EXCEPT ![q] = "receiveState"]
    /\ UNCHANGED <<reqFrame, pc, call, repCh, reset, delivered>>

\* (variant: after a send timeout the requestor starts over with a request)
RSendOKTimeout_Drop(q) ==
    /\ pc[Requestor(q)] = "tick"
    /\ rstate[q] = "sendOKState"
    /\ rstate' = [rstate EXCEPT ![q] = "requestMsgState"]
    /\ UNCHANGED <<reqFrame, pc, call, reqCh, repCh, reset, delivered>>

\* sendOKState: sock.Send times out and is tried again on the next tick
RSendOKTimeout(q) ==
    /\ pc[Requestor(q)] = "tick"
    /\ rstate[q] = "sendOKState"
    /\ UNCHANGED vars

\* the Orchestrator steps of the requestor's calls; the peer's manager is the
\* DummyManager{ShouldProcessRet: true} of TestPollRequestor
RequestorCall(q) ==
    LET t == Requestor(q) IN
    /\ \/ HRM_ShouldProcess(t, TRUE)
       \/ HRM_Process(t)
       \/ HRM_Update(t)
       \/ HRM_Push(t)
       \/ CRS_Check(t)
    /\ UNCHANGED compVars

RequestorStep(q) ==
    \/ RRequest(q)
    \/ \E discard \in BOOLEAN : RRequestTimeout(q, discard)
    \/ RGiveUp(q)
    \/ RRecvTimeout(q)
    \/ RRecv(q)
    \/ RHandleRemoteMessage(q)
    \/ RHandled(q)
    \/ RCheckRemoteState(q)
    \/ RChecked(q)
    \/ RSendOK(q)
    \/ RSendOKTimeout(q)

\* the failures the listener reports to its client and survives
ListenerFault(p) ==
    \/ LPeekErr(p)
    \/ LSerializeErr(p)

\* ---------------------------------------------------------- ComponentRunner
\* errors a component hands to Shutdown
Errs == {"e1", "e2"}

NoFrame == [comp |-> 0, back |-> "none", sig |-> 0, err |-> "nil", idx |-> 0, calls |-> 0]

\* everything the runner, its callers and Listen do not touch
runFrame == <<cached, queue, history, processMutex, stackLock, clock, call, last, ncalls,
              lstate, reply, rstate, reset, reqCh, repCh, delivered, dequeued, test>>

\* a goroutine enters Stop(sig) or WaitForStop() of component c and will go
\* on at `back`
Enter(t, c, sig, back, first) ==
    /\ frame' = [frame EXCEPT ![t].comp = c, ![t].sig = sig, ![t].back = back]
    /\ pc' = [pc EXCEPT ![t] = first]

\* Stop: the left operand of `!runner.stopped || !runner.stopping`
Stop_ReadStopped(t) ==
    LET c == frame[t].comp IN
    /\ pc[t] = "Stop_stopped"
    /\ pc' = [pc EXCEPT ![t] = IF ~stopped[c] THEN "Stop_set" ELSE "Stop_stopping"]
    /\ UNCHANGED <<runFrame, shutdown, runVars, test>>

\* Stop: the right operand; when both flags are set Stop returns at once
Stop_ReadStopping(t) ==
    LET c == frame[t].comp IN
    /\ pc[t] = "Stop_stopping"
    /\ pc' = [pc EXCEPT ![t] = IF ~stopping[c] THEN "Stop_set" ELSE frame[t].back]
    /\ UNCHANGED <<runFrame, shutdown, runVars, test>>

\* Stop: runner.stopping = true
Stop_SetStopping(t) ==
    LET c == frame[t].comp IN
    /\ pc[t] = "Stop_set"
    /\ stopping' = [stopping EXCEPT ![c] = TRUE]
    /\ pc' = [pc EXCEPT ![t] = "Stop_send"]
    /\ UNCHANGED <<runFrame, shutdown, stopSignal, stopped, hasCleanup, sent, observed,
                   cleanups, frame, listenRet>>

\* Stop: runner.stopSignal <- sig, which waits while the channel is full
Stop_Send(t) ==
    LET c == frame[t].comp IN
    /\ pc[t] = "Stop_send"
    /\ Len(stopSignal[c]) < StopCap
    /\ stopSignal' = [stopSignal EXCEPT ![c] = Append(@, frame[t].sig)]
    /\ sent' = [sent EXCEPT ![c] = @ + 1]
    /\ pc' = [pc EXCEPT ![t] = frame[t].back]
    /\ UNCHANGED <<runFrame, shutdown, stopping, stopped, hasCleanup, observed,
                   cleanups, frame, listenRet>>

\* WaitForStop: with doneSignal.L held, `if !stopped || stopping { Wait() }`
Wait_Check(t) ==
    LET c == frame[t].comp IN
    /\ pc[t] = "Wait_check"
    /\ pc[Loop(c)] # "defer_b"
    /\ pc' = [pc EXCEPT ![t] = IF ~stopped[c] \/ stopping[c] THEN "Wait_wait"
                                ELSE frame[t].back]
    /\ UNCHANGED <<runFrame, shutdown, runVars, test>>

\* WaitForStop: Wait() has been woken by the Broadcast; unlock and return
Wait_Return(t) ==
    /\ pc[t] = "Wait_woken"
    /\ pc[Loop(frame[t].comp)] # "defer_b"
    /\ pc' = [pc EXCEPT ![t] = frame[t].back]
    /\ UNCHANGED <<runFrame, shutdown, runVars, test>>

\* Shutdown(err), after its Stop(1): accord.Shutdown(err), which waits while
\* accord.shutdown is full
Shutdown_Send(t) ==
    /\ pc[t] = "Shutdown_send"
    /\ Len(shutdown[1]) < ShutdownCap
    /\ shutdown' = [shutdown EXCEPT ![1] = Append(@, frame[t].err)]
    /\ pc' = [pc EXCEPT ![t] = "tick"]
    /\ UNCHANGED <<runFrame, runVars, test>>

\* the loop: select with the stop signal ready
Loop_Signal(c) ==
    /\ pc[Loop(c)] = "select"
    /\ stopSignal[c] # <<>>
    /\ stopSignal' = [stopSignal EXCEPT ![c] = Tail(@)]
    /\ observed' = [observed EXCEPT ![c] = @ + 1]
    /\ pc' = [pc EXCEPT ![Loop(c)] = "cleanup"]
    /\ UNCHANGED <<runFrame, shutdown, stopping, stopped, hasCleanup, sent, cleanups,
                   frame, listenRet>>

\* (variant: the loop goes round again after the cleanup)
Loop_Cleanup_Again(c) ==
    /\ pc[Loop(c)] = "cleanup"
    /\ cleanups' = [cleanups EXCEPT ![c] = IF hasCleanup[c] THEN @ + 1 ELSE @]
    /\ pc' = [pc EXCEPT ![Loop(c)] = "select"]
    /\ UNCHANGED <<runFrame, shutdown, stopSignal, stopping, stopped, hasCleanup, sent,
                   observed, frame, listenRet>>

\* the loop: `if cleanup != nil { cleanup(accord) }` and return
Loop_Cleanup(c) ==
    /\ pc[Loop(c)] = "cleanup"
    /\ cleanups' = [cleanups EXCEPT ![c] = IF hasCleanup[c] THEN @ + 1 ELSE @]
    /\ pc' = [pc EXCEPT ![Loop(c)] = "defer_a"]
    /\ UNCHANGED <<runFrame, shutdown, stopSignal, stopping, stopped, hasCleanup, sent,
                   observed, frame, listenRet>>

\* the loop: select takes the default branch and tick starts
Loop_Default(c) ==
    /\ pc[Loop(c)] = "select"
    /\ stopSignal[c] = <<>>
    /\ pc' = [pc EXCEPT ![Loop(c)] = "tick"]
    /\ UNCHANGED <<runFrame, shutdown, runVars, test>>

\* the deferred function: doneSignal.L.Lock(), stopping = false
Loop_DeferA(c) ==
    /\ pc[Loop(c)] = "defer_a"
    /\ stopping' = [stopping EXCEPT ![c] = FALSE]
    /\ pc' = [pc EXCEPT ![Loop(c)] = "defer_b"]
    /\ UNCHANGED <<runFrame, shutdown, stopSignal, stopped, hasCleanup, sent, observed,
                   cleanups, frame, listenRet>>

\* the deferred function: stopped = true, Broadcast(), Unlock()
Loop_DeferB(c) ==
    /\ pc[Loop(c)] = "defer_b"
    /\ stopped' = [stopped EXCEPT ![c] = TRUE]
    /\ pc' = [t \in Threads |->
                 IF t = Loop(c) THEN "exited"
                 ELSE IF pc[t] = "Wait_wait" /\ frame[t].comp = c THEN "Wait_woken"
                 ELSE pc[t]]
    /\ UNCHANGED <<runFrame, shutdown, stopSignal, stopping, hasCleanup, sent, observed,
                   cleanups, frame, listenRet>>

\* a tick that returns
Tick_Return(c) ==
    /\ pc[Loop(c)] = "tick"
    /\ pc' = [pc EXCEPT ![Loop(c)] = "select"]
    /\ UNCHANGED <<runFrame, shutdown, runVars, test>>

\* a tick that calls Stop on its own runner
Tick_Stop(c) ==
    /\ pc[Loop(c)] = "tick"
    /\ Enter(Loop(c), c, 0, "tick", "Stop_stopped")
    /\ UNCHANGED <<runFrame, shutdown, stopSignal, stopping, stopped, hasCleanup, sent,
                   observed, cleanups, listenRet>>

\* a tick that calls Shutdown(e): Stop(1), then accord.Shutdown(e)
Tick_Shutdown(c, e) ==
    /\ pc[Loop(c)] = "tick"
    /\ frame' = [frame EXCEPT ![Loop(c)].comp = c, ![Loop(c)].sig = 1,
                              ![Loop(c)].back = "Shutdown_send", ![Loop(c)].err = e]
    /\ pc' = [pc EXCEPT ![Loop(c)] = "Stop_stopped"]
    /\ UNCHANGED <<runFrame, shutdown, stopSignal, stopping, stopped, hasCleanup, sent,
                   observed, cleanups, listenRet>>

\* the steps inside Stop, WaitForStop and Shutdown, whoever runs them
RunnerCall(t) ==
    \/ Stop_ReadStopped(t)
    \/ Stop_ReadStopping(t)
    \/ Stop_SetStopping(t)
    \/ Stop_Send(t)
    \/ Wait_Check(t)
    \/ Wait_Return(t)
    \/ Shutdown_Send(t)

\* the steps of the goroutine started by Init
LoopStep(c) ==
    \/ Loop_Signal(c)
    \/ Loop_Default(c)
    \/ Loop_Cleanup(c)
    \/ Loop_DeferA(c)
    \/ Loop_DeferB(c)
    \/ Tick_Return(c)

InitRunner ==
    /\ stopSignal = [c \in Comps |-> <<>>]
    /\ stopping = [c \in Comps |-> FALSE]
    /\ stopped = [c \in Comps |-> FALSE]
    /\ sent = [c \in Comps |-> 0]
    /\ observed = [c \in Comps |-> 0]
    /\ cleanups = [c \in Comps |-> 0]
    /\ frame = [t \in RunThreads |-> NoFrame]
    /\ listenRet = "none"

\* no store is driven directly: the test has called nothing yet
NoIt == [pos |-> 0, size |-> 0]
NoTest == [op |-> "none", arg |-> 0, before |-> <<>>, ret |-> <<>>, err |-> "nil",
           log |-> <<>>, n |-> 0, it |-> NoIt]

InitProtocol ==
    /\ test = NoTest
    /\ lstate = [p \in Peers |-> "recvState"]
    /\ reply = [p \in Peers |-> <<>>]
    /\ rstate = [p \in Peers |-> "requestMsgState"]
    /\ reset = [p \in Peers |-> 0]
    /\ reqCh = [p \in Peers |-> <<>>]
    /\ repCh = [p \in Peers |-> <<>>]
    /\ delivered = [p \in Peers |-> {}]
    /\ dequeued = [p \in Peers |-> {}]

InitComponents ==
    /\ hasCleanup = [c \in Comps |-> TRUE]
    /\ InitRunner
    /\ InitProtocol

\* ------------------------------------------- the Orchestrator on its own
InitStores ==
    /\ cached = [p \in Peers |-> 0]
    /\ queue = [p \in Peers |-> <<>>]
    /\ history = [p \in Peers |-> <<>>]
    /\ processMutex = [p \in Peers |-> NoThread]
    /\ stackLock = [p \in Peers |-> NoThread]
    /\ shutdown = [p \in Peers |-> <<>>]
    /\ clock = 0
    /\ call = [t \in Threads |-> NoCall]
    /\ last = [p \in Peers |-> NoCall]
    /\ ncalls = 0

InitOrch ==
    /\ InitStores
    /\ InitComponents
    /\ pc = [t \in Threads |-> IF t \in Callers(1) THEN "idle" ELSE "off"]

NextOrch ==
    /\ \E t \in Callers(1) : OrchStep(t) \/ OrchFault(t) \/ CallerStep(t)
    /\ UNCHANGED compVars

SpecOrch == InitOrch /\ [][NextOrch]_vars

\* ---------------------------------- concurrent submission of new messages
\* go execute(msg_i): submitter i hands in the message with ID i
SubmitId(t) == t[3]

Submit(t) ==
    /\ pc[t] = "start"
    /\ clock' = clock + 1
    /\ HNM_Process(t, NewMsg(SubmitId(t), clock + 1))
    /\ UNCHANGED <<cached, queue, history, stackLock, shutdown, ncalls>>

SubmitErr(t) ==
    /\ pc[t] = "start"
    /\ clock' = clock + 1
    /\ HNM_ProcessErr(t, NewMsg(SubmitId(t), clock + 1))
    /\ UNCHANGED <<cached, queue, history, stackLock, shutdown, ncalls>>

InitNew ==
    /\ InitStores
    /\ InitComponents
    /\ pc = [t \in Threads |-> IF t \in Submitters(1) THEN "start" ELSE "off"]

NextNew ==
    /\ \E t \in Submitters(1) :
          \/ Submit(t)
          \/ SubmitErr(t)
          \/ HNM_Step(t)
          \/ HNM_Fault(t)
    /\ UNCHANGED compVars

SpecNew == InitNew /\ [][NextNew]_vars

\* ------------------------------- a listener, its peer's callers and a client
\* the client of TestPollListener: a PAIR socket on which the test sends a
\* request and then reads the reply
Requests == {"send", "ok", "bogus"}

ClientSend(p, r) ==
    /\ pc[Client(p)] = "send"
    /\ Len(reqCh[p]) < ChanCap
    /\ reqCh' = [reqCh EXCEPT ![p] = Append(@, r)]
    /\ pc' = [pc EXCEPT ![Client(p)] = "recv"]
    /\ UNCHANGED <<lisFrame, queue, repCh, lstate, reply, dequeued>>

ClientRecv(p) ==
    /\ pc[Client(p)] = "recv"
    /\ repCh[p] # <<>>
    /\ repCh' = [repCh EXCEPT ![p] = Tail(@)]
    /\ pc' = [pc EXCEPT ![Client(p)] = "send"]
    /\ UNCHANGED <<lisFrame, queue, reqCh, lstate, reply, dequeued>>

LisCaller == <<1, "ing", 1>>

InitLis ==
    /\ InitStores
    /\ InitComponents
    /\ pc = [t \in Threads |-> IF t = LisCaller THEN "idle"
                                ELSE IF t = Listener(1) THEN "tick"
                                ELSE IF t = Client(1) THEN "send" ELSE "off"]

NextLis ==
    \/ (OrchStep(LisCaller) \/ OrchFault(LisCaller)) /\ UNCHANGED compVars
    \/ clock + ncalls < MaxPeerCalls /\ CallerStep(LisCaller) /\ UNCHANGED compVars
    \/ ListenerStep(1)
    \/ ListenerFault(1)
    \/ LDequeueErr(1)
    \/ \E r \in Requests : ClientSend(1, r)
    \/ ClientRecv(1)

SpecLis == InitLis /\ [][NextLis]_vars

\* ------------------------- two peers: peer 1 is polled by peer 2's requestor
ProtoCaller == <<1, "ing", 1>>

\* the message peer 1 has accepted before its listener starts, as in
\* TestPollListener
First == UpdateStateAt(NewMsg(1, 0), 0)

InitProto ==
    /\ cached = [p \in Peers |-> IF p = 1 THEN UpdateCached(0, First.ID) ELSE 0]
    /\ queue = [p \in Peers |-> IF p = 1 THEN Enqueue(<<>>, First) ELSE <<>>]
    /\ history = [p \in Peers |-> IF p = 1 THEN Push(<<>>, First) ELSE <<>>]
    /\ processMutex = [p \in Peers |-> NoThread]
    /\ stackLock = [p \in Peers |-> NoThread]
    /\ shutdown = [p \in Peers |-> <<>>]
    /\ clock = 0
    /\ call = [t \in Threads |-> NoCall]
    /\ last = [p \in Peers |-> NoCall]
    /\ ncalls = 0
    /\ InitComponents
    /\ pc = [t \in Threads |-> IF t = ProtoCaller THEN "idle"
                                ELSE IF t \in {Listener(1), Requestor(2)} THEN "tick"
                                ELSE "off"]

\* the application on peer 1 hands in new messages
ProtoNew ==
    /\ \/ clock < MaxLate /\ \E id \in 1..MaxLateId : CallHandleNewMessage(ProtoCaller, id)
       \/ HNM_Step(ProtoCaller)
    /\ UNCHANGED compVars

NextProto ==
    \/ ProtoNew
    \/ ListenerStep(1)
    \/ RequestorStep(2)
    \/ RequestorCall(2)

SpecProto == InitProto /\ [][NextProto]_vars

\* ------------------------------ two peers, each polling the other's listener
\* the message peer 2 has accepted before its components start
Second == UpdateStateAt(NewMsg(2, 0), 0)

InitTwo ==
    /\ cached = [p \in Peers |-> UpdateCached(0, IF p = 1 THEN First.ID ELSE Second.ID)]
    /\ queue = [p \in Peers |-> Enqueue(<<>>, IF p = 1 THEN First ELSE Second)]
    /\ history = [p \in Peers |-> Push(<<>>, IF p = 1 THEN First ELSE Second)]
    /\ processMutex = [p \in Peers |-> NoThread]
    /\ stackLock = [p \in Peers |-> NoThread]
    /\ shutdown = [p \in Peers |-> <<>>]
    /\ clock = 0
    /\ call = [t \in Threads |-> NoCall]
    /\ last = [p \in Peers |-> NoCall]
    /\ ncalls = 0
    /\ InitComponents
    /\ pc = [t \in Threads |->
                IF t \in {Listener(p) : p \in Peers} \cup {Requestor(p) : p \in Peers}
                  THEN "tick" ELSE "off"]

\* the requestor of peer q when every send is accepted at once and no reply is
\* late
PromptRequestor(q) ==
    \/ RRequest(q)
    \/ RRecv(q)
    \/ RHandleRemoteMessage(q)
    \/ RHandled(q)
    \/ RCheckRemoteState(q)
    \/ RChecked(q)
    \/ RSendOK(q)

\* peer 2 polls peer 1 over a link with late replies and failing sends, peer 1
\* polls peer 2 over a prompt one
NextTwo ==
    \/ \E p \in Peers : ListenerStep(p)
    \/ PromptRequestor(1)
    \/ RequestorStep(2)
    \/ \E q \in Peers : RequestorCall(q)

SpecTwo == InitTwo /\ [][NextTwo]_vars

\* ------- two peers polling each other, two messages waiting on peer 1 only
\* the second message peer 1 has accepted before the components start
Late == UpdateStateAt(NewMsg(2, 1), UpdateCached(0, First.ID))

InitClear ==
    /\ cached = [p \in Peers |->
                    IF p = 1 THEN UpdateCached(UpdateCached(0, First.ID), Late.ID) ELSE 0]
    /\ queue = [p \in Peers |-> IF p = 1 THEN Enqueue(Enqueue(<<>>, First), Late) ELSE <<>>]
    /\ history = [p \in Peers |-> IF p = 1 THEN Push(Push(<<>>, First), Late) ELSE <<>>]
    /\ processMutex = [p \in Peers |-> NoThread]
    /\ stackLock = [p \in Peers |-> NoThread]
    /\ shutdown = [p \in Peers |-> <<>>]
    /\ clock = 0
    /\ call = [t \in Threads |-> NoCall]
    /\ last = [p \in Peers |-> NoCall]
    /\ ncalls = 0
    /\ InitComponents
    /\ pc = [t \in Threads |->
                IF t \in {Listener(p) : p \in Peers} \cup {Requestor(p) : p \in Peers}
                  THEN "tick" ELSE "off"]

\* peer 2 polls peer 1 over a link with late replies (every send is accepted
\* at once), peer 1 polls peer 2 over a prompt one
NextClear ==
    \/ \E p \in Peers : ListenerStep(p)
    \/ \E q \in Peers : PromptRequestor(q)
    \/ RRecvTimeout(2)
    \/ RGiveUp(2)
    \/ \E q \in Peers : RequestorCall(q)

SpecClear == InitClear /\ [][NextClear]_vars

\* ------------- a listener and a test client that keeps what it sent and got
\* TestPollListener with two messages accepted before the listener starts:
\* the client sends a request (test.before holds the requests sent so far)
TPL_Send(r) ==
    /\ pc[Client(1)] = "send"
    /\ test.n < MaxRequests
    /\ Len(reqCh[1]) < ChanCap
    /\ reqCh' = [reqCh EXCEPT ![1] = Append(@, r)]
    /\ test' = [test EXCEPT !.op = "Send", !.n = @ + 1, !.before = Append(@, r)]
    /\ pc' = [pc EXCEPT ![Client(1)] = "recv"]
    /\ UNCHANGED <<cached, queue, history, processMutex, stackLock, shutdown, clock, call,
                   last, ncalls, lstate, reply, rstate, reset, repCh, delivered, dequeued,
                   runVars>>

\* the client reads the reply (test.log holds the replies read so far)
TPL_Recv ==
    /\ pc[Client(1)] = "recv"
    /\ repCh[1] # <<>>
    /\ repCh' = [repCh EXCEPT ![1] = Tail(@)]
    /\ test' = [test EXCEPT !.op = "RecvMessageBytes", !.ret = Head(repCh[1]),
                            !.log = Append(@, Head(repCh[1]))]
    /\ pc' = [pc EXCEPT ![Client(1)] = "send"]
    /\ UNCHANGED <<cached, queue, history, processMutex, stackLock, shutdown, clock, call,
                   last, ncalls, lstate, reply, rstate, reset, reqCh, delivered, dequeued,
                   runVars>>

InitTPL ==
    /\ cached = [p \in Peers |->
                    IF p = 1 THEN UpdateCached(UpdateCached(0, First.ID), Late.ID) ELSE 0]
    /\ queue = [p \in Peers |-> IF p = 1 THEN Enqueue(Enqueue(<<>>, First), Late) ELSE <<>>]
    /\ history = [p \in Peers |-> IF p = 1 THEN Push(Push(<<>>, First), Late) ELSE <<>>]
    /\ processMutex = [p \in Peers |-> NoThread]
    /\ stackLock = [p \in Peers |-> NoThread]
    /\ shutdown = [p \in Peers |-> <<>>]
    /\ clock = 0
    /\ call = [t \in Threads |-> NoCall]
    /\ last = [p \in Peers |-> NoCall]
    /\ ncalls = 0
    /\ InitComponents
    /\ pc = [t \in Threads |-> IF t = Listener(1) THEN "tick"
                                ELSE IF t = Client(1) THEN "send" ELSE "off"]

NextTPL ==
    \/ ListenerStep(1)
    \/ \E r \in Requests : TPL_Send(r)
    \/ TPL_Recv

SpecTPL == InitTPL /\ [][NextTPL]_vars

\* ------------- a requestor and a test server that keeps what it got and sent
\* TestPollRequestor: the server is a PAIR socket of the test; it reads a
\* request (test.log holds the requests read so far) and answers it
\* accord.Message{ID: 5, StateAt: 0}
Fifth == [ID |-> 5, Timestamp |-> 0, StateAt |-> 0]

\* the frames the server may answer with: those of the test, and frames a
\* listener does not send
Replies ==
    {<<"msg", Serialize(Fifth)>>, <<"msg">>, <<"msg", <<>>>>,
     <<"empty", PutUint64(0)>>, <<"empty", PutUint64(Fifth.ID)>>, <<"empty">>,
     <<"deleted">>, <<"error", "dequeue">>, <<"error", "peek">>, <<"error">>,
     <<"bogus">>}

TPR_Recv ==
    /\ pc[Client(1)] = "recv"
    /\ reqCh[1] # <<>>
    /\ reqCh' = [reqCh EXCEPT ![1] = Tail(@)]
    /\ test' = [test EXCEPT !.op = "Recv", !.ret = Head(reqCh[1]),
                            !.log = Append(@, Head(reqCh[1]))]
    /\ pc' = [pc EXCEPT ![Client(1)] = "send"]
    /\ UNCHANGED <<cached, queue, history, processMutex, stackLock, shutdown, clock, call,
                   last, ncalls, lstate, reply, rstate, reset, repCh, delivered, dequeued,
                   runVars>>

\* the server answers (test.before holds the replies sent so far)
TPR_Send(f) ==
    /\ pc[Client(1)] = "send"
    /\ test.n < MaxReplies
    /\ Len(repCh[1]) < ChanCap
    /\ repCh' = [repCh EXCEPT ![1] = Append(@, f)]
    /\ test' = [test EXCEPT !.op = "SendMessage", !.n = @ + 1, !.before = Append(@, f)]
    /\ pc' = [pc EXCEPT ![Client(1)] = "recv"]
    /\ UNCHANGED <<cached, queue, history, processMutex, stackLock, shutdown, clock, call,
                   last, ncalls, lstate, reply, rstate, reset, reqCh, delivered, dequeued,
                   runVars>>

\* the failures inside the requestor's Orchestrator calls
RequestorFault(q) ==
    LET t == Requestor(q) IN
    /\ \/ HRM_Fault(t)
       \/ CRS_ClearErr(t)
       \/ AccordShutdown(t)
    /\ UNCHANGED compVars

InitTPR ==
    /\ InitStores
    /\ InitComponents
    /\ pc = [t \in Threads |-> IF t = Requestor(2) THEN "tick"
                                ELSE IF t = Client(1) THEN "recv" ELSE "off"]

NextTPR ==
    \/ RequestorStep(2)
    \/ RRecvDequeueError(2)
    \/ RequestorCall(2)
    \/ RequestorFault(2)
    \/ TPR_Recv
    \/ \E f \in Replies : TPR_Send(f)

SpecTPR == InitTPR /\ [][NextTPR]_vars

\* ------------------------ one ComponentRunner and the callers of its methods
\* a goroutine outside the loop calls Stop(0), as the tests do
Out_Stop(t, c) ==
    /\ pc[t] = "out"
    /\ frame[t].calls < MaxOutsideCalls
    /\ frame' = [frame EXCEPT ![t].comp = c, ![t].sig = 0, ![t].back = "out",
                              ![t].calls = @ + 1]
    /\ pc' = [pc EXCEPT ![t] = "Stop_stopped"]
    /\ UNCHANGED <<runFrame, shutdown, stopSignal, stopping, stopped, hasCleanup, sent,
                   observed, cleanups, listenRet>>

\* a goroutine outside the loop calls WaitForStop()
Out_Wait(t, c) ==
    /\ pc[t] = "out"
    /\ frame[t].calls < MaxOutsideCalls
    /\ frame' = [frame EXCEPT ![t].comp = c, ![t].back = "out", ![t].calls = @ + 1]
    /\ pc' = [pc EXCEPT ![t] = "Wait_check"]
    /\ UNCHANGED <<runFrame, shutdown, stopSignal, stopping, stopped, hasCleanup, sent,
                   observed, cleanups, listenRet>>

InitRun ==
    /\ InitStores
    /\ InitProtocol
    /\ InitRunner
    /\ hasCleanup \in [Comps -> BOOLEAN]
    /\ pc = [t \in Threads |-> IF t = Loop(1) THEN "select"
                                ELSE IF t \in Outsiders THEN "out" ELSE "off"]

NextRun ==
    \/ LoopStep(1)
    \/ Tick_Stop(1)
    \/ \E e \in Errs : Tick_Shutdown(1, e)
    \/ \E t \in Outsiders : Out_Stop(t, 1) \/ Out_Wait(t, 1)
    \/ \E t \in Outsiders \cup {Loop(1)} : RunnerCall(t)

SpecRun == InitRun /\ [][NextRun]_vars

\* ----------------------- a component whose tick counts its runs and may stop
\* testComponentStruct: the select takes the default branch and tick runs:
\* comp.runCount++ (test.n; test.log holds what each tick went on to do),
\* then nothing more, comp.ComponentRunner.Stop(1) or comp.Shutdown(nil)
\* (variant: the default branch is taken whether or not a signal waits)
TCR_Tick_Unchecked(kind) ==
    LET l == Loop(1) IN
    /\ pc[l] = "select"
    /\ test.n < MaxTicks
    /\ test' = [test EXCEPT !.op = "tick", !.n = @ + 1, !.log = Append(@, kind)]
    /\ frame' = [frame EXCEPT ![l].comp = 1, ![l].sig = 1, ![l].err = "nil",
                              ![l].back = IF kind = "Shutdown" THEN "Shutdown_send"
                                          ELSE "tick"]
    /\ pc' = [pc EXCEPT ![l] = IF kind = "return" THEN "tick" ELSE "Stop_stopped"]
    /\ UNCHANGED <<cached, queue, history, processMutex, stackLock, clock, call, last,
                   ncalls, lstate, reply, rstate, reset, reqCh, repCh, delivered, dequeued,
                   shutdown, stopSignal, stopping, stopped, hasCleanup, sent, observed,
                   cleanups, listenRet>>

TCR_Tick(kind) ==
    LET l == Loop(1) IN
    /\ pc[l] = "select"
    /\ stopSignal[1] = <<>>
    /\ test.n < MaxTicks
    /\ test' = [test EXCEPT !.op = "tick", !.n = @ + 1, !.log = Append(@, kind)]
    /\ frame' = [frame EXCEPT ![l].comp = 1, ![l].sig = 1, ![l].err = "nil",
                              ![l].back = IF kind = "Shutdown" THEN "Shutdown_send"
                                          ELSE "tick"]
    /\ pc' = [pc EXCEPT ![l] = IF kind = "return" THEN "tick" ELSE "Stop_stopped"]
    /\ UNCHANGED <<cached, queue, history, processMutex, stackLock, clock, call, last,
                   ncalls, lstate, reply, rstate, reset, reqCh, repCh, delivered, dequeued,
                   shutdown, stopSignal, stopping, stopped, hasCleanup, sent, observed,
                   cleanups, listenRet>>

TickKinds == {"return", "Stop", "Shutdown"}

InitTCR ==
    /\ InitStores
    /\ InitProtocol
    /\ InitRunner
    /\ hasCleanup \in [Comps -> BOOLEAN]
    /\ pc = [t \in Threads |-> IF t = Loop(1) THEN "select"
                                ELSE IF t \in Outsiders THEN "out" ELSE "off"]

NextTCR ==
    \/ \E kind \in TickKinds : TCR_Tick(kind)
    \/ Tick_Return(1)
    \/ Loop_Signal(1)
    \/ Loop_Cleanup(1)
    \/ Loop_DeferA(1)
    \/ Loop_DeferB(1)
    \/ \E t \in Outsiders : Out_Stop(t, 1) \/ Out_Wait(t, 1)
    \/ \E t \in Outsiders \cup {Loop(1)} : RunnerCall(t)

SpecTCR == InitTCR /\ [][NextTCR]_vars

\* --------------------- a component that hands its errors to ExpectedOrShutdown
\* an error value: what `==` compares (id) and what it prints (text)
errKnown1 == [id |-> 1, text |-> "KNOWN ERROR1"]
errKnown2 == [id |-> 2, text |-> "KNOWN ERROR2"]
errStrange == [id |-> 3, text |-> "STRANGE ERROR"]
\* another errors.New with the text of errKnown1
errTwin == [id |-> 4, text |-> "KNOWN ERROR1"]
\* zmq.Errno(syscall.EAGAIN)
ZMQTimeout == [id |-> 5, text |-> "resource temporarily unavailable"]

ErrPool == {errKnown1, errKnown2, errStrange, errTwin, ZMQTimeout}

\* (variant: errors are compared by their text)
ExpectedOrShutdown_Text(real, expected) ==
    \E i \in 1..Len(expected) : expected[i].text = real.text

\* the value of `match` after the loop over `expected`
ExpectedOrShutdown(real, expected) ==
    \E i \in 1..Len(expected) : expected[i] = real

\* what the components and the test pass as `expected`
ExpectedLists == {<<errKnown1, errKnown2>>, <<ZMQTimeout>>}

RECURSIVE SeqsUpTo(_, _)
SeqsUpTo(S, n) ==
    IF n = 0 THEN {<<>>}
    ELSE LET shorter == SeqsUpTo(S, n - 1) IN
         shorter \cup {Append(q, x) : q \in shorter, x \in S}

\* shutdownRunner.tick: runCount++, the next error is taken off run.errs and
\* handed to ExpectedOrShutdown, which calls Shutdown(real) when nothing
\* matches (test.log holds the error and the result of every tick)
TEO_Tick ==
    LET l == Loop(1)
        real == Head(test.before)
        match == ExpectedOrShutdown(real, test.arg.expected) IN
    /\ pc[l] = "select"
    /\ stopSignal[1] = <<>>
    /\ test.before # <<>>
    /\ test' = [test EXCEPT !.op = "tick", !.n = @ + 1, !.before = Tail(@),
                            !.log = Append(@, [err |-> real, ret |-> match])]
    /\ IF match
         THEN /\ pc' = [pc EXCEPT ![l] = "tick"]
              /\ UNCHANGED frame
         ELSE /\ frame' = [frame EXCEPT ![l].comp = 1, ![l].sig = 1, ![l].err = real,
                                        ![l].back = "Shutdown_send"]
              /\ pc' = [pc EXCEPT ![l] = "Stop_stopped"]
    /\ UNCHANGED <<cached, queue, history, processMutex, stackLock, clock, call, last,
                   ncalls, lstate, reply, rstate, reset, reqCh, repCh, delivered, dequeued,
                   shutdown, stopSignal, stopping, stopped, hasCleanup, sent, observed,
                   cleanups, listenRet>>

\* shutdownRunner.tick with run.errs used up: run.errs[0] panics
TEO_Panic ==
    LET l == Loop(1) IN
    /\ pc[l] = "select"
    /\ stopSignal[1] = <<>>
    /\ test.before = <<>>
    /\ test' = [test EXCEPT !.op = "panic", !.n = @ + 1]
    /\ pc' = [u \in DOMAIN pc |-> IF pc[u] # "off" THEN "exit" ELSE pc[u]]
    /\ UNCHANGED <<cached, queue, history, processMutex, stackLock, clock, call, last,
                   ncalls, lstate, reply, rstate, reset, reqCh, repCh, delivered, dequeued,
                   shutdown, runVars>>

\* the goroutine of the test
Waiter == <<1, "ext", 1>>

\* the test itself: runner.WaitForStop()
TEO_Wait ==
    /\ pc[Waiter] = "test"
    /\ frame' = [frame EXCEPT ![Waiter].comp = 1, ![Waiter].back = "done"]
    /\ pc' = [pc EXCEPT ![Waiter] = "Wait_check"]
    /\ UNCHANGED <<runFrame, shutdown, stopSignal, stopping, stopped, hasCleanup, sent,
                   observed, cleanups, listenRet>>

\* no listener and no requestor has been started
NoComponents ==
    /\ lstate = [p \in Peers |-> "recvState"]
    /\ reply = [p \in Peers |-> <<>>]
    /\ rstate = [p \in Peers |-> "requestMsgState"]
    /\ reset = [p \in Peers |-> 0]
    /\ reqCh = [p \in Peers |-> <<>>]
    /\ repCh = [p \in Peers |-> <<>>]
    /\ delivered = [p \in Peers |-> {}]
    /\ dequeued = [p \in Peers |-> {}]

InitTEO ==
    /\ InitStores
    /\ hasCleanup = [c \in Comps |-> FALSE]
    /\ InitRunner
    /\ NoComponents
    /\ \E errs \in SeqsUpTo(ErrPool, MaxErrs) \ {<<>>}, expected \in ExpectedLists :
           test = [NoTest EXCEPT !.arg = [errs |-> errs, expected |-> expected],
                                 !.before = errs]
    /\ pc = [t \in Threads |-> IF t = Loop(1) THEN "select"
                                ELSE IF t = Waiter THEN "test" ELSE "off"]

NextTEO ==
    \/ TEO_Tick
    \/ TEO_Panic
    \/ TEO_Wait
    \/ Tick_Return(1)
    \/ Loop_Signal(1)
    \/ Loop_Cleanup(1)
    \/ Loop_DeferA(1)
    \/ Loop_DeferB(1)
    \/ Stop_ReadStopped(Loop(1))
    \/ Stop_SetStopping(Loop(1))
    \/ Stop_Send(Loop(1))
    \/ Shutdown_Send(Loop(1))
    \/ Wait_Check(Waiter)
    \/ Wait_Return(Waiter)

SpecTEO == InitTEO /\ [][NextTEO]_vars

\* --------------------------------- an Accord with its components and Listen
\* Listen: `case err := <-accord.shutdown`, then accord.Stop()
Listen_Shutdown ==
    /\ pc[Main] = "Listen"
    /\ shutdown[1] # <<>>
    /\ shutdown' = [shutdown EXCEPT ![1] = Tail(@)]
    /\ frame' = [frame EXCEPT ![Main].err = Head(shutdown[1]), ![Main].idx = 1]
    /\ pc' = [pc EXCEPT ![Main] = "AccordStop_stop"]
    /\ UNCHANGED <<runFrame, stopSignal, stopping, stopped, hasCleanup, sent, observed,
                   cleanups, listenRet>>

\* Listen: `case <-accord.signalChannel`, then accord.Stop()
Listen_Signal ==
    /\ pc[Main] = "Listen"
    /\ frame' = [frame EXCEPT ![Main].err = "nil", ![Main].idx = 1]
    /\ pc' = [pc EXCEPT ![Main] = "AccordStop_stop"]
    /\ UNCHANGED <<runFrame, shutdown, stopSignal, stopping, stopped, hasCleanup, sent,
                   observed, cleanups, listenRet>>

\* Accord.Stop: the loop `comp.Stop(0)` over the components
AccordStop_Stop ==
    LET i == frame[Main].idx IN
    /\ pc[Main] = "AccordStop_stop"
    /\ IF i <= NumComps
         THEN /\ frame' = [frame EXCEPT ![Main].comp = i, ![Main].sig = 0,
                                        ![Main].back = "AccordStop_stop",
                                        ![Main].idx = i + 1]
              /\ pc' = [pc EXCEPT ![Main] = "Stop_stopped"]
         ELSE /\ frame' = [frame EXCEPT ![Main].idx = 1]
              /\ pc' = [pc EXCEPT ![Main] = "AccordStop_wait"]
    /\ UNCHANGED <<runFrame, shutdown, stopSignal, stopping, stopped, hasCleanup, sent,
                   observed, cleanups, listenRet>>

\* Accord.Stop: the loop `comp.WaitForStop()` over the components
AccordStop_Wait ==
    LET i == frame[Main].idx IN
    /\ pc[Main] = "AccordStop_wait"
    /\ IF i <= NumComps
         THEN /\ frame' = [frame EXCEPT ![Main].comp = i,
                                        ![Main].back = "AccordStop_wait",
                                        ![Main].idx = i + 1]
              /\ pc' = [pc EXCEPT ![Main] = "Wait_check"]
         ELSE /\ pc' = [pc EXCEPT ![Main] = "AccordStop_close"]
              /\ UNCHANGED frame
    /\ UNCHANGED <<runFrame, shutdown, stopSignal, stopping, stopped, hasCleanup, sent,
                   observed, cleanups, listenRet>>

\* Accord.Stop closes the stores and Listen returns the error it received
AccordStop_Close ==
    /\ pc[Main] = "AccordStop_close"
    /\ listenRet' = frame[Main].err
    /\ pc' = [pc EXCEPT ![Main] = "Listen_ret"]
    /\ UNCHANGED <<runFrame, shutdown, stopSignal, stopping, stopped, hasCleanup, sent,
                   observed, cleanups, frame>>

InitListen ==
    /\ InitStores
    /\ InitComponents
    /\ pc = [t \in Threads |-> IF t \in {Loop(c) : c \in Comps} THEN "select"
                                ELSE IF t = Main THEN "Listen" ELSE "off"]

NextListen ==
    \/ \E c \in Comps : LoopStep(c)
    \/ \E c \in Comps, e \in Errs : Tick_Shutdown(c, e)
    \/ Listen_Shutdown
    \/ Listen_Signal
    \/ AccordStop_Stop
    \/ AccordStop_Wait
    \/ AccordStop_Close
    \/ \E t \in {Loop(c) : c \in Comps} \cup {Main} : RunnerCall(t)

SpecListen == InitListen /\ [][NextListen]_vars

\* ------------ Listen, the components and an ingestion goroutine that fails
ShutCaller == <<1, "ing", 1>>

InitShut ==
    /\ InitStores
    /\ InitComponents
    /\ pc = [t \in Threads |-> IF t \in {Loop(c) : c \in Comps} THEN "select"
                                ELSE IF t = Main THEN "Listen"
                                ELSE IF t = ShutCaller THEN "idle" ELSE "off"]

\* the application hands in messages that its manager fails to process:
\* HandleNewMessage logs, calls accord.Shutdown(err) and returns the error
NextShut ==
    \/ NextListen
    \/ \E id \in Ids : CallHandleNewMessageErr(ShutCaller, id) /\ UNCHANGED compVars
    \/ AccordShutdown(ShutCaller) /\ UNCHANGED compVars

SpecShut == InitShut /\ [][NextShut]_vars

\* ------------------------------------------ the SyncQueue driven by a test
\* the messages a test hands to a store: any id, the n-th one stamped n, any
\* StateAt
TestMsgs(n) == {[ID |-> id, Timestamp |-> n, StateAt |-> sa] : id \in Ids, sa \in 0..1}

\* the test's record of a call: its name, what the test had put in and not
\* taken out before the call (oldest first), and what the call returned
Called(op, ret, log) ==
    [op |-> op, arg |-> 0, before |-> test.log, ret |-> ret, err |-> "nil",
     log |-> log, n |-> test.n + 1, it |-> test.it]

\* sync.Enqueue(&Message{...})
Q_Enqueue(m) ==
    /\ test.n < MaxOps
    /\ Len(test.log) < MaxPut
    /\ queue' = [queue EXCEPT ![1] = Enqueue(@, m)]
    /\ test' = Called("Enqueue", <<>>, Append(test.log, m))

\* msg, err = sync.Peek()
Q_Peek ==
    /\ test.n < MaxOps
    /\ test' = Called("Peek", Peek(queue[1]), test.log)
    /\ UNCHANGED queue

\* msg, err = sync.Dequeue()
Q_Dequeue ==
    /\ test.n < MaxOps
    /\ queue' = [queue EXCEPT ![1] = Dequeue(@)]
    /\ test' = Called("Dequeue", DequeueRet(queue[1]),
                      IF test.log = <<>> THEN <<>> ELSE Tail(test.log))

storeFrame == <<cached, processMutex, stackLock, shutdown, clock, pc, call, last, ncalls,
                lstate, reply, rstate, reset, reqCh, repCh, delivered, dequeued, runVars>>

InitQueue ==
    /\ InitStores
    /\ InitComponents
    /\ pc = [t \in Threads |-> "off"]

NextQueue ==
    /\ \/ \E m \in TestMsgs(test.n) : Q_Enqueue(m)
       \/ Q_Peek
       \/ Q_Dequeue
    /\ UNCHANGED <<history, storeFrame>>

SpecQueue == InitQueue /\ [][NextQueue]_vars

\* --------------------------------------- the HistoryStack driven by a test
\* every call takes stackLock on entry and releases it on return; the test's
\* record lists what it pushed and did not take off, most recent first

\* stack.Push(&Message{...})
T_Push(m) ==
    /\ test.n < MaxOps
    /\ Len(test.log) < MaxPut
    /\ stackLock[1] = NoThread
    /\ history' = [history EXCEPT ![1] = Push(@, m)]
    /\ test' = Called("Push", <<>>, <<m>> \o test.log)

\* msg, err = stack.Pop()
T_Pop ==
    /\ test.n < MaxOps
    /\ stackLock[1] = NoThread
    /\ history' = [history EXCEPT ![1] = Pop(@)]
    /\ test' = Called("Pop", PopRet(history[1]),
                      IF test.log = <<>> THEN <<>> ELSE Tail(test.log))

\* msg, err = stack.PeekByOffset(k); Peek() is PeekByOffset(0)
T_PeekByOffset(k) ==
    /\ test.n < MaxOps
    /\ stackLock[1] = NoThread
    /\ test' = [Called("PeekByOffset", peek(history[1], k).msg, test.log)
                   EXCEPT !.arg = k, !.err = peek(history[1], k).err]
    /\ UNCHANGED history

\* err = stack.Clear()
T_Clear ==
    /\ test.n < MaxOps
    /\ stackLock[1] = NoThread
    /\ history' = [history EXCEPT ![1] = Clear(@)]
    /\ test' = Called("Clear", <<>>, <<>>)

InitHistory ==
    /\ InitStores
    /\ InitComponents
    /\ pc = [t \in Threads |-> "off"]

NextHistory ==
    /\ \/ \E m \in TestMsgs(test.n) : T_Push(m)
       \/ T_Pop
       \/ \E k \in 0..(MaxPut - 1) : T_PeekByOffset(k)
       \/ T_Clear
    /\ UNCHANGED <<queue, storeFrame>>

SpecHistory == InitHistory /\ [][NextHistory]_vars

\* ------------------------------- the HistoryIterator and a second goroutine
\* the stack as messages, most recent first
Entries(h) == [i \in 1..Len(h) |-> DeserializeMessage(h[i])]

\* the message the second goroutine pushes
Fourth == [ID |-> MaxId, Timestamp |-> MaxOps, StateAt |-> 0]

\* createHistoryIterator, first half: the iterator is built with
\* size: stack.stack.Length(); stackLock is not held yet
It_Create(t) ==
    /\ pc[t] = "setup"
    /\ test' = [test EXCEPT !.it = createHistoryIterator(history[1]), !.op = "create"]
    /\ pc' = [pc EXCEPT ![t] = "It_lock"]
    /\ UNCHANGED <<history, stackLock>>

\* createHistoryIterator, second half: it.stack.stackLock.Lock(); the test
\* notes what the stack holds now that nobody else can change it
It_Lock(t) ==
    /\ pc[t] = "It_lock"
    /\ stackLock[1] = NoThread
    /\ stackLock' = [stackLock EXCEPT ![1] = t]
    /\ test' = [test EXCEPT !.before = Entries(history[1]), !.ret = <<>>, !.op = "open"]
    /\ pc' = [pc EXCEPT ![t] = "open"]
    /\ UNCHANGED history

\* it.Next(): peek(it.pos) and it.pos++ while it.pos < it.size, else nil
It_Next(t) ==
    LET r == peek(history[1], test.it.pos) IN
    /\ pc[t] = "open"
    /\ test.n < MaxOps
    /\ IF test.it.pos < test.it.size
         THEN test' = [test EXCEPT !.it.pos = @ + 1, !.ret = @ \o r.msg, !.err = r.err,
                                   !.op = IF r.msg = <<>> THEN "NextNil" ELSE "Next",
                                   !.n = @ + 1]
         ELSE test' = [test EXCEPT !.op = "NextNil", !.n = @ + 1]
    /\ UNCHANGED <<history, stackLock, pc>>

\* it.close(): stackLock.Unlock()
It_Close(t) ==
    /\ pc[t] = "open"
    /\ stackLock[1] = t
    /\ stackLock' = [stackLock EXCEPT ![1] = NoThread]
    /\ pc' = [pc EXCEPT ![t] = "closed"]
    /\ UNCHANGED <<history, test>>

\* the second goroutine calls Push, Pop or Clear and stands at stackLock.Lock()
C_Call(t, op) ==
    /\ pc[t] = "idle"
    /\ pc' = [pc EXCEPT ![t] = op]
    /\ UNCHANGED <<history, stackLock, test>>

\* it gets the lock, does the call and unlocks on return
C_Push(t) ==
    /\ pc[t] = "Push_lock"
    /\ stackLock[1] = NoThread
    /\ history' = [history EXCEPT ![1] = Push(@, Fourth)]
    /\ pc' = [pc EXCEPT ![t] = "pushed"]
    /\ UNCHANGED <<stackLock, test>>

C_Pop(t) ==
    /\ pc[t] = "Pop_lock"
    /\ stackLock[1] = NoThread
    /\ history' = [history EXCEPT ![1] = Pop(@)]
    /\ pc' = [pc EXCEPT ![t] = "done"]
    /\ UNCHANGED <<stackLock, test>>

C_Clear(t) ==
    /\ pc[t] = "Clear_lock"
    /\ stackLock[1] = NoThread
    /\ history' = [history EXCEPT ![1] = Clear(@)]
    /\ pc' = [pc EXCEPT ![t] = "done"]
    /\ UNCHANGED <<stackLock, test>>

InitIter ==
    /\ InitStores
    /\ InitComponents
    /\ pc = [t \in Threads |-> IF t = Tester THEN "setup"
                                ELSE IF t = Concurrent THEN "idle" ELSE "off"]

NextIter ==
    /\ \/ \E m \in TestMsgs(test.n) :
             pc[Tester] = "setup" /\ T_Push(m) /\ UNCHANGED <<stackLock, pc>>
       \/ It_Create(Tester)
       \/ It_Lock(Tester)
       \/ It_Next(Tester)
       \/ It_Close(Tester)
       \/ \E op \in {"Push_lock", "Pop_lock", "Clear_lock"} : C_Call(Concurrent, op)
       \/ C_Push(Concurrent)
       \/ C_Pop(Concurrent)
       \/ C_Clear(Concurrent)
    /\ UNCHANGED <<cached, queue, processMutex, shutdown, clock, call, last, ncalls,
                   lstate, reply, rstate, reset, reqCh, repCh, delivered, dequeued, runVars>>

SpecIter == InitIter /\ [][NextIter]_vars

\* ------------------------------------------------ the State driven by a test
\* the ids of the messages the test updates the state with
StateIds == {20, 30, 40}

\* err = state1.Update(&msg) succeeds: the counter is advanced and saved, the
\* message carries the counter as it was
S_Update(id) ==
    LET msg == NewMsg(id, test.n) IN
    /\ test.n < MaxOps
    /\ cached' = [cached EXCEPT ![1] = UpdateCached(@, id)]
    /\ test' = [test EXCEPT !.op = "Update", !.arg = id, !.before = <<cached[1]>>,
                            !.ret = <<UpdateStateAt(msg, cached[1])>>, !.err = "nil",
                            !.log = Append(@, id), !.n = @ + 1]

\* saveToDisk fails: state.cached = original, the error is returned
S_UpdateErr(id) ==
    /\ test.n < MaxOps
    /\ test' = [test EXCEPT !.op = "UpdateErr", !.arg = id, !.before = <<cached[1]>>,
                            !.ret = <<>>, !.err = "save", !.n = @ + 1]
    /\ UNCHANGED cached

\* state1.Close(); OpenState(stateFile): the eight bytes saveToDisk wrote are
\* read back by loadFromDisk
S_Reopen ==
    /\ test.n < MaxOps
    /\ test.op # "Reopen"
    /\ cached' = [cached EXCEPT ![1] = Uint64(PutUint64(@))]
    /\ test' = [test EXCEPT !.op = "Reopen", !.arg = 0, !.before = <<cached[1]>>,
                            !.ret = <<>>, !.err = "nil", !.n = @ + 1]

InitState ==
    /\ InitStores
    /\ InitComponents
    /\ pc = [t \in Threads |-> "off"]

NextState ==
    /\ \/ \E id \in StateIds : S_Update(id) \/ S_UpdateErr(id)
       \/ S_Reopen
    /\ UNCHANGED <<queue, history, processMutex, stackLock, shutdown, clock, pc, call, last,
                   ncalls, lstate, reply, rstate, reset, reqCh, repCh, delivered, dequeued, runVars>>

SpecState == InitState /\ [][NextState]_vars

\* ------------------------------------- the State and the database under it
\* the test's locals, with the value stored under stateKey in the LevelDB
\* file (no bytes while the key was never written)
NoDiskTest == [op |-> "none", arg |-> 0, before |-> <<>>, ret |-> <<>>, err |-> "nil",
               log |-> <<>>, n |-> 0, it |-> NoIt, disk |-> <<>>]

\* loadFromDisk: errors.ErrNotFound gives 0, otherwise the bytes are decoded
loadFromDisk(disk) == IF disk = <<>> THEN 0 ELSE Uint64(disk)

\* Update: original := state.cached; state.cached += msg.ID
D_Update(id) ==
    /\ test.op # "Update"
    /\ test.n < MaxOps
    /\ cached' = [cached EXCEPT ![1] = UpdateCached(@, id)]
    /\ test' = [test EXCEPT !.op = "Update", !.arg = id, !.before = <<cached[1]>>,
                            !.ret = test.disk, !.err = "nil", !.n = @ + 1]

\* Update: saveToDisk writes the eight bytes of the counter
D_Save ==
    /\ test.op = "Update"
    /\ test' = [test EXCEPT !.op = "Updated", !.disk = PutUint64(cached[1]),
                            !.log = Append(@, test.arg)]
    /\ UNCHANGED cached

\* (variant: the counter is left as it is when saveToDisk fails)
D_SaveErr_Keep ==
    /\ test.op = "Update"
    /\ test' = [test EXCEPT !.op = "UpdateErr", !.err = "save"]
    /\ UNCHANGED cached

\* Update: saveToDisk fails (nothing is written): state.cached = original
\* and the error is returned
D_SaveErr ==
    /\ test.op = "Update"
    /\ cached' = [cached EXCEPT ![1] = test.before[1]]
    /\ test' = [test EXCEPT !.op = "UpdateErr", !.err = "save"]

\* state.Close(); OpenState(stateFile)
D_Reopen ==
    /\ test.op \notin {"Update", "Reopen"}
    /\ test.n < MaxOps
    /\ cached' = [cached EXCEPT ![1] = loadFromDisk(test.disk)]
    /\ test' = [test EXCEPT !.op = "Reopen", !.arg = 0, !.before = <<cached[1]>>,
                            !.ret = test.disk, !.err = "nil", !.n = @ + 1]

InitDisk ==
    /\ InitStores
    /\ hasCleanup = [c \in Comps |-> TRUE]
    /\ InitRunner
    /\ NoComponents
    /\ test = NoDiskTest
    /\ pc = [t \in Threads |-> "off"]

NextDisk ==
    /\ \/ \E id \in StateIds : D_Update(id)
       \/ D_Save
       \/ D_SaveErr
       \/ D_Reopen
    /\ UNCHANGED <<queue, history, processMutex, stackLock, shutdown, clock, pc, call, last,
                   ncalls, lstate, reply, rstate, reset, reqCh, repCh, delivered, dequeued, runVars>>

SpecDisk == InitDisk /\ [][NextDisk]_vars

\* ======================================================================
\* Properties of the Orchestrator
\* ======================================================================

\* the goroutines of peer p that are inside an Orchestrator call, i.e.
\* between processMutex.Lock() and the deferred Unlock()
InCritical(p) == {t \in Threads : PeerOf(t) = p /\ call[t].op # "none" /\ pc[t] # "ret"}

\* the listener of peer p completes its handling of an "ok" request
OkHandled(p) == pc[Listener(p)] = "L_Dequeue" /\ pc'[Listener(p)] = "tick"

\* the listener of peer p completes its handling of a "send" request that
\* found a message
SendHandled(p) == pc[Listener(p)] = "L_Peek" /\ pc'[Listener(p)] = "tick"

\* the messages peer p has accepted through HandleNewMessage
Accepted(p) == {history[p][i] : i \in 1..Len(history[p])}

\* C1: a step that makes the Outbound Queue of a peer shorter is the
\* listener's handling of an "ok" request, which ends with the reply
\* ["deleted"]; no step of HandleNewMessage, HandleRemoteMessage,
\* CheckRemoteState or Status and no handling of "send" or of an unknown
\* request makes it shorter.
C1_OnlyOkDequeues ==
    [][\A p \in Peers :
          Size(queue'[p]) < Size(queue[p]) =>
              /\ OkHandled(p)
              /\ reply'[p] = <<"deleted">>
              /\ lstate'[p] = "sendState"]_vars

\* an "ok" has emptied the queue after the ingestion goroutine made a call
\* other than HandleNewMessage
C1_Witness ==
    /\ dequeued[1] # {}
    /\ Size(queue[1]) = 0
    /\ reply[1] = <<"deleted">>
    /\ ncalls = 1

\* C2: every message the listener has dequeued on an "ok" was passed before
\* to a HandleRemoteMessage call of the requestor that returned nil.
C2_DequeuedWasDelivered ==
    \A d \in dequeued[1] : MsgKey(DeserializeMessage(d)) \in delivered[2]

\* C3: when peer 1 takes no more messages, its queue is empty, no request is
\* under way or being handled, and no "msg" reply is under way or being
\* handled, every message peer 1 accepted has been passed to
\* HandleRemoteMessage on peer 2 (a message that is then missing is in no
\* queue and in no frame, so it never arrives).
C3_SettledMeansDelivered ==
    (/\ clock = MaxLate
     /\ pc[ProtoCaller] = "idle"
     /\ queue[1] = <<>>
     /\ reqCh[1] = <<>>
     /\ \A i \in 1..Len(repCh[1]) : repCh[1][i][1] # "msg"
     /\ pc[Listener(1)] = "tick" /\ lstate[1] = "recvState"
     /\ pc[Requestor(2)] = "tick" /\ rstate[2] = "requestMsgState")
    => \A d \in Accepted(1) : MsgKey(DeserializeMessage(d)) \in delivered[2]

\* C4: the handling of "ok" removes exactly the head of the queue, so that a
\* non-empty queue gets shorter by one, and is answered ["deleted"]; the
\* handling of "send" leaves the queue as it is and answers with the head.
\* While the message accepted before the start is the only one, the queue
\* holds it (size 1) until the "ok" is handled and is empty (size 0) from
\* then on, and an "empty" reply is built only on the empty queue and carries
\* the state counter.
C4_Exchange ==
    /\ [][\A p \in Peers :
             /\ OkHandled(p) =>
                   /\ queue'[p] = IF queue[p] = <<>> THEN <<>> ELSE Tail(queue[p])
                   /\ queue[p] # <<>> => Size(queue'[p]) = Size(queue[p]) - 1
                   /\ reply'[p] = <<"deleted">>
             /\ SendHandled(p) =>
                   /\ queue'[p] = queue[p]
                   /\ queue[p] # <<>>
                   /\ reply'[p] = <<"msg", Head(queue[p])>>]_vars
    /\ [](clock = 0 =>
             /\ dequeued[1] = {} => queue[1] = <<Serialize(First)>>
             /\ dequeued[1] # {} => Size(queue[1]) = 0 /\ dequeued[1] = {Serialize(First)}
             /\ \A i \in 1..Len(repCh[1]) :
                   repCh[1][i] \in {<<"msg", Serialize(First)>>, <<"deleted">>,
                                    <<"empty", PutUint64(cached[1])>>}
             /\ (lstate[1] = "sendState" /\ reply[1][1] = "empty") =>
                   /\ queue[1] = <<>>
                   /\ reply[1] = <<"empty", PutUint64(cached[1])>>
                   /\ Uint64(reply[1][2]) = cached[1])

\* the one message has gone through send, msg, ok, deleted, and the next
\* "send" was answered "empty" with the counter, which the requestor is about
\* to hand to CheckRemoteState
C4_Witness ==
    /\ clock = 0
    /\ dequeued[1] = {Serialize(First)}
    /\ delivered[2] = {MsgKey(First)}
    /\ Size(queue[1]) = 0
    /\ pc[Requestor(2)] = "R_CheckRemoteState"
    /\ call[Requestor(2)].remoteState = cached[1]

\* C11: once Listen has received an error from a worker's Shutdown, it is never
\* left waiting in WaitForStop for a component whose loop has already exited
\* (nothing broadcasts any more, so Listen would never return the error).
C11_ListenNotStuck ==
    ~(/\ frame[Main].err \in Errs
      /\ pc[Main] = "Wait_wait"
      /\ pc[Loop(frame[Main].comp)] = "exited")

\* C12: over all Stop calls the stop signal is sent at most once, and no Stop
\* call is left at its send with the channel full and nobody to receive (the
\* caller is the loop itself, or the loop has exited).
C12_StopIdempotent ==
    \A c \in Comps :
        /\ sent[c] <= 1
        /\ \A t \in RunThreads :
              (pc[t] = "Stop_send" /\ frame[t].comp = c /\ Len(stopSignal[c]) = StopCap)
                  => (t # Loop(c) /\ pc[Loop(c)] # "exited")

\* C13: a WaitForStop call is woken only when the loop has exited and the
\* cleanup has run, and no WaitForStop call is left waiting for a loop that
\* has already exited (it would wait for ever).
C13_WaitReturns ==
    \A t \in Outsiders :
        LET c == frame[t].comp IN
        /\ pc[t] = "Wait_woken" =>
              (pc[Loop(c)] = "exited" /\ (hasCleanup[c] => cleanups[c] = 1))
        /\ pc[t] = "Wait_wait" => pc[Loop(c)] # "exited"

\* C14: the cleanup function runs at most once and only after the loop has
\* received a stop signal; once the loop has received it no tick starts; the
\* loop that has exited has run the cleanup exactly once; stopped is set and
\* waiters are woken only after the cleanup has returned.
C14_CleanupOnce ==
    /\ [](\A c \in Comps :
            /\ cleanups[c] <= 1
            /\ cleanups[c] >= 1 => observed[c] >= 1
            /\ (pc[Loop(c)] \in {"defer_a", "defer_b", "exited"} /\ hasCleanup[c])
                   => cleanups[c] = 1
            /\ stopped[c] => (pc[Loop(c)] = "exited" /\ (hasCleanup[c] => cleanups[c] = 1))
            /\ \A t \in Outsiders :
                  (pc[t] = "Wait_woken" /\ frame[t].comp = c /\ hasCleanup[c])
                      => cleanups[c] = 1)
    /\ [][\A c \in Comps :
             observed[c] >= 1 => (pc'[Loop(c)] # "tick" /\ observed'[c] = 1)]_vars

\* the loop has ticked, was stopped from outside, has cleaned up and has woken
\* a waiter
C14_Witness ==
    /\ hasCleanup[1]
    /\ cleanups[1] = 1
    /\ stopped[1]
    /\ \E t \in Outsiders : pc[t] = "Wait_woken"

\* C15: the queue always holds as many entries as the test put in and did not
\* take out; Dequeue returns the oldest of them and leaves one entry fewer;
\* Peek returns that same oldest entry (what the next Dequeue returns) and
\* leaves the size as it was; on the empty queue both return nil and the size
\* stays 0.
C15_QueueFIFO ==
    LET oldest == IF test.before = <<>> THEN <<>> ELSE <<Head(test.before)>> IN
    /\ Size(queue[1]) = Len(test.log)
    /\ test.op = "Dequeue" =>
          /\ test.ret = oldest
          /\ Size(queue[1]) = (IF test.before = <<>> THEN 0 ELSE Len(test.before) - 1)
    /\ test.op = "Peek" =>
          /\ test.ret = oldest
          /\ test.ret = DequeueRet(queue[1])
          /\ Size(queue[1]) = Len(test.before)

\* the queue was filled with messages of which the two oldest differ in their
\* ids, and a Dequeue has returned the oldest and left the others
C15_Witness ==
    /\ test.op = "Dequeue"
    /\ Len(test.before) = MaxPut
    /\ test.before[1].ID # test.before[2].ID
    /\ test.ret = <<test.before[1]>>
    /\ Size(queue[1]) = MaxPut - 1

\* C16: the stack always holds what the test pushed and did not take off;
\* PeekByOffset(k) with k below the size returns the (k+1)-th most recent entry
\* without an error and leaves the size as it was; Pop returns the most recent
\* entry and leaves one fewer, and nil on the empty stack; after Clear the size
\* is 0; a Push leaves one entry more (size 1 on an emptied stack) with the
\* pushed message on top.
C16_HistoryLIFO ==
    LET n == Len(test.before) IN
    /\ HistorySize(history[1]) = Len(test.log)
    /\ (test.op = "PeekByOffset" /\ test.arg < n) =>
          /\ test.ret = <<test.before[test.arg + 1]>>
          /\ test.err = "nil"
          /\ HistorySize(history[1]) = n
    /\ test.op = "Pop" =>
          /\ test.ret = (IF n = 0 THEN <<>> ELSE <<Head(test.before)>>)
          /\ HistorySize(history[1]) = (IF n = 0 THEN 0 ELSE n - 1)
    /\ test.op = "Clear" => HistorySize(history[1]) = 0
    /\ test.op = "Push" =>
          /\ HistorySize(history[1]) = n + 1
          /\ peek(history[1], 0).msg = <<Head(test.log)>>

\* the stack was filled, its most recent and its oldest entry differ in their
\* ids, and PeekByOffset of the last offset has returned the oldest
C16_Witness ==
    /\ test.op = "PeekByOffset"
    /\ test.arg = MaxPut - 1
    /\ Len(test.before) = MaxPut
    /\ test.before[1].ID # test.before[MaxPut].ID
    /\ test.ret = <<test.before[MaxPut]>>
    /\ HistorySize(history[1]) = MaxPut

\* C17: the messages an open (or closed) iterator has returned are, in order,
\* the most recent entries of the stack it locked, no Next has failed, and
\* once Next has returned the end the iterator has returned every entry down
\* to the oldest; a push that was not in the locked stack, so had to wait for
\* the iterator to be closed, is on top once it is through.
C17_IteratorSnapshot ==
    /\ pc[Tester] \in {"open", "closed"} =>
          /\ test.err = "nil"
          /\ Len(test.ret) <= Len(test.before)
          /\ test.ret = SubSeq(test.before, 1, Len(test.ret))
          /\ test.op = "NextNil" => test.ret = test.before
    /\ (/\ pc[Concurrent] = "pushed"
        /\ pc[Tester] = "closed"
        /\ \A i \in 1..Len(test.before) : test.before[i] # Fourth) =>
          peek(history[1], 0).msg = <<Fourth>>

C19_MutationsUnderMutex ==
    [][\A p \in Peers :
          /\ (queue'[p] # queue[p] \/ history'[p] # history[p] \/ cached'[p] # cached[p])
                => \E t \in Threads :
                      PeerOf(t) = p /\ pc'[t] # pc[t] /\ processMutex[p] = t
          /\ (OkHandled(p) /\ queue'[p] # queue[p]) => InCritical(p) = {}]_vars

\* C20: whenever both queues are empty, no request and no reply is under way
\* or being handled, and neither requestor is about to send "ok", the two
\* counters are equal, and equal to the sum of the ids of the messages handed
\* in on the two peers, each counted once.
C20_CountersConverge ==
    (\A p \in Peers :
        /\ queue[p] = <<>>
        /\ reqCh[p] = <<>> /\ repCh[p] = <<>>
        /\ pc[Listener(p)] = "tick" /\ lstate[p] = "recvState"
        /\ pc[Requestor(p)] = "tick" /\ rstate[p] = "requestMsgState")
    => /\ cached[1] = cached[2]
       /\ cached[1] = (First.ID + Second.ID) % Modulus

\* the counter of peer q contains message m: m was handed in on q (First and
\* Late were both handed in on peer 1), or a HandleRemoteMessage(m) of q's
\* requestor has returned nil or is in progress
Counted(q, m) ==
    \/ q = 1 /\ MsgKey(m) \in {MsgKey(First), MsgKey(Late)}
    \/ MsgKey(m) \in delivered[q]
    \/ /\ call[Requestor(q)].op = "HandleRemoteMessage"
       /\ MsgKey(call[Requestor(q)].arg) = MsgKey(m)

\* C21: when the CheckRemoteState call made by a requestor for an "empty"
\* reply has cleared the History of its peer, every message that was in that
\* History is contained in the State Counter of the other peer.
C21_ClearOnlyConverged ==
    \A p \in Peers :
        LET c == call[Requestor(p)] IN
        (pc[Requestor(p)] = "ret" /\ c.op = "CheckRemoteState"
            /\ c.pre.History # <<>> /\ c.post.History = <<>>)
        => \A i \in 1..Len(c.pre.History) :
               Counted(Other(p), DeserializeMessage(c.pre.History[i]))

\* the apply decision of a HandleRemoteMessage call c: the counter equalled
\* msg.StateAt on entry, or ShouldProcess was asked and returned true
Applied(c) ==
    \/ c.pre.State = c.arg.StateAt
    \/ c.ShouldProcessCount > 0 /\ c.shouldProcess

\* C22: a HandleRemoteMessage(msg) that completes without a failure has
\* called Process (once, with fromRemote = true) and pushed msg to the
\* History (one entry more, msg on top) exactly when the counter equalled
\* msg.StateAt on entry or ShouldProcess returned true, and otherwise has done
\* neither; ShouldProcess is called once when the two values differ and not
\* at all when they are equal.  No call, failing or not, calls Process after
\* the decision was negative.
C22_ApplyDecision ==
    /\ \A t \in Callers(1) :
          call[t].op = "HandleRemoteMessage" /\ call[t].ProcessCount > 0
              => Applied(call[t])
    /\ LET c == last[1] IN
       (c.op = "HandleRemoteMessage" /\ c.err = "nil") =>
           /\ c.ShouldProcessCount = IF c.pre.State = c.arg.StateAt THEN 0 ELSE 1
           /\ IF Applied(c)
                THEN /\ c.ProcessCount = 1 /\ c.fromRemote
                     /\ Len(c.post.History) = Len(c.pre.History) + 1
                     /\ Tail(c.post.History) = c.pre.History
                     /\ MsgKey(DeserializeMessage(Head(c.post.History))) = MsgKey(c.arg)
                ELSE /\ c.ProcessCount = 0
                     /\ c.post.History = c.pre.History

C22_Witness ==
    LET c == last[1] IN
    /\ c.op = "HandleRemoteMessage" /\ c.err = "nil"
    /\ c.pre.State # c.arg.StateAt
    /\ c.ShouldProcessCount = 1 /\ c.shouldProcess
    /\ c.ProcessCount = 1
    /\ Len(c.pre.History) > 0
    /\ Len(c.post.History) = Len(c.pre.History) + 1

\* C23 as stated: every HandleRemoteMessage(msg) call leaves the counter
\* advanced by msg.ID (mod 2^Width) and the queue as it was.
C23_AlwaysUpdates ==
    LET c == last[1] IN
    c.op = "HandleRemoteMessage" =>
        /\ c.post.State = (c.pre.State + c.arg.ID) % Modulus
        /\ c.post.ToBeSynced = c.pre.ToBeSynced

\* C23: every HandleRemoteMessage(msg) call leaves the queue as it was; a
\* call that returns nil, applied or not, and a call whose History push
\* failed leave the counter advanced by msg.ID (mod 2^Width); a call whose
\* Process or state update failed leaves the counter as it was.
C23_UpdatesUnlessFailed ==
    LET c == last[1] IN
    c.op = "HandleRemoteMessage" =>
        /\ c.post.ToBeSynced = c.pre.ToBeSynced
        /\ c.err \in {"nil", "push"} => c.post.State = (c.pre.State + c.arg.ID) % Modulus
        /\ c.err \in {"process", "state"} => c.post.State = c.pre.State
        /\ c.err \in {"nil", "push", "process", "state"}

C23_Witness ==
    LET c == last[1] IN
    /\ c.op = "HandleRemoteMessage" /\ c.err = "nil"
    /\ ~Applied(c)
    /\ c.arg.ID = MaxId
    /\ Len(c.pre.ToBeSynced) > 0
    /\ c.post.ToBeSynced = c.pre.ToBeSynced
    /\ c.post.State = (c.pre.State + MaxId) % Modulus

\* C24: a goroutine inside HandleRemoteMessage holds the History lock exactly
\* while the ShouldProcess callback of the diverged path is pending: the lock
\* is taken on entry to that path, given up in the step in which the callback
\* returns (the only step that frees it, so once per call), and is free at
\* Process, at the counter update, at the History push, during a shutdown and
\* after the return.
C24_IteratorReleased ==
    /\ [](\A t \in Callers(1) :
            /\ stackLock[1] = t <=> pc[t] = "HRM_ShouldProcess"
            /\ pc[t] \in {"HRM_Process", "HRM_Update", "HRM_Push", "Shutdown"}
                  => stackLock[1] = NoThread
            /\ pc[t] = "idle" => stackLock[1] # t
            /\ call[t].op = "HandleRemoteMessage" => call[t].ShouldProcessCount <= 1)
    /\ [][\A t \in Callers(1) :
            (stackLock[1] = t /\ stackLock'[1] # t)
                => /\ pc[t] = "HRM_ShouldProcess"
                   /\ pc'[t] \in {"HRM_Process", "HRM_Update"}
                   /\ call'[t].ShouldProcessCount = call[t].ShouldProcessCount + 1
                   /\ stackLock'[1] = NoThread]_vars

C24_Witness ==
    \E t \in Callers(1) :
        /\ pc[t] = "HRM_Push"
        /\ call[t].op = "HandleRemoteMessage"
        /\ call[t].ShouldProcessCount = 1
        /\ call[t].pre.State # call[t].arg.StateAt
        /\ stackLock[1] = NoThread
        /\ processMutex[1] = t
        /\ history[1] # <<>>

C26_NoRollback ==
    LET c == last[1]
        m == UpdateStateAt(c.arg, c.pre.State) IN
    (c.op = "HandleNewMessage" /\ c.err # "nil") =>
        /\ c.err \in {"process", "state", "enqueue", "push"}
        /\ c.ProcessCount = 1 /\ ~c.fromRemote
        /\ \E i \in 1..Len(shutdown[1]) : shutdown[1][i] = c.err
        /\ c.post.History = c.pre.History
        /\ c.err \in {"process", "state"} => c.post = c.pre
        /\ c.err = "enqueue" =>
              /\ c.post.State = (c.pre.State + c.arg.ID) % Modulus
              /\ c.post.ToBeSynced = c.pre.ToBeSynced
        /\ c.err = "push" =>
              /\ c.post.State = (c.pre.State + c.arg.ID) % Modulus
              /\ c.post.ToBeSynced = Append(c.pre.ToBeSynced, Serialize(m))

C26_Witness ==
    LET c == last[1] IN
    /\ c.op = "HandleNewMessage" /\ c.err = "push"
    /\ Len(c.pre.History) > 0
    /\ Len(c.post.ToBeSynced) = Len(c.pre.ToBeSynced) + 1
    /\ c.post.State # c.pre.State
    /\ shutdown[1] = <<"push">>
    /\ processMutex[1] = NoThread

\* C27: the listener's handling of a "send" request changes none of the three
\* stores and prepares its reply from what Peek found: ["msg", bytes of the
\* head entry] or ["error", "serialize"] when the queue has a head,
\* ["error", "queue read"] when the read fails, and on an empty queue
\* ["empty", b] where b is the 8-byte little-endian form of the counter that
\* Status read (low byte first; a counter of Width bits fills at most the
\* first two bytes); an unknown request is answered ["unknown"] with the
\* stores unchanged.
C27_SendReply ==
    [][LET t == Listener(1) IN
       /\ (pc[t] = "L_Peek" /\ pc'[t] # "L_Peek") =>
             /\ <<cached, queue, history>>' = <<cached, queue, history>>
             /\ IF pc'[t] = "L_Status"
                  THEN queue[1] = <<>> /\ reply' = reply /\ lstate' = lstate
                  ELSE /\ lstate'[1] = "sendState"
                       /\ \/ reply'[1] = <<"error", "queue read">>
                          \/ queue[1] # <<>> /\ reply'[1] = <<"msg", Head(queue[1])>>
                          \/ queue[1] # <<>> /\ reply'[1] = <<"error", "serialize">>
       /\ (pc[t] \in {"L_Status", "Status_Read", "ret"} /\ pc'[t] # pc[t]) =>
             <<cached, queue, history>>' = <<cached, queue, history>>
       /\ (pc[t] = "Status_Read" /\ pc'[t] = "ret") => call'[t].status.State = cached[1]
       /\ (pc[t] = "ret" /\ pc'[t] = "tick") =>
             /\ lstate'[1] = "sendState"
             /\ Len(reply'[1]) = 2 /\ reply'[1][1] = "empty"
             /\ Len(reply'[1][2]) = 8
             /\ reply'[1][2][1] = call[t].status.State % 256
             /\ reply'[1][2][2] = (call[t].status.State \div 256) % 256
             /\ \A i \in 3..8 : reply'[1][2][i] = 0
       /\ (pc[t] = "tick" /\ lstate[1] = "recvState" /\ reqCh[1] # <<>>
               /\ reqCh'[1] = Tail(reqCh[1]) /\ Head(reqCh[1]) \notin {"send", "ok"}) =>
             /\ reply'[1] = <<"unknown">> /\ lstate'[1] = "sendState"
             /\ <<cached, queue, history>>' = <<cached, queue, history>>]_vars

C27_Witness ==
    /\ lstate[1] = "sendState"
    /\ pc[Listener(1)] = "tick"
    /\ Len(reply[1]) = 2 /\ reply[1][1] = "empty"
    /\ Uint64(reply[1][2]) = cached[1]
    /\ cached[1] > 1
    /\ queue[1] = <<>>

\* C28: the listener starts in recvState and goes from recvState to
\* sendState and back only: a request is consumed only in recvState between
\* two handlings, and its handling ends with a prepared reply and sendState
\* (a request whose Dequeue fails ends the process instead); in sendState no
\* request is consumed and the reply stays as it is; the listener leaves
\* sendState only by sending that reply, once, and is then in recvState; a
\* timeout in either state changes nothing.
C28_Alternates ==
    /\ lstate[1] = "recvState"
    /\ [](pc[Listener(1)] \notin {"tick", "exit"} => lstate[1] = "recvState")
    /\ [][LET t == Listener(1)
              consumed == Len(reqCh'[1]) < Len(reqCh[1])
              replied == Len(repCh'[1]) > Len(repCh[1]) IN
          /\ consumed =>
                /\ lstate[1] = "recvState" /\ pc[t] = "tick"
                /\ reqCh'[1] = Tail(reqCh[1])
                /\ pc'[t] # "tick" \/ lstate'[1] = "sendState"
          /\ (pc[t] \notin {"tick", "exit"} /\ pc'[t] = "tick") =>
                /\ lstate'[1] = "sendState"
                /\ Len(reply'[1]) \in {1, 2}
          /\ lstate'[1] # lstate[1] =>
                \/ /\ lstate[1] = "recvState" /\ pc'[t] = "tick"
                   /\ consumed \/ pc[t] # "tick"
                   /\ ~replied
                \/ /\ lstate[1] = "sendState" /\ replied /\ ~consumed
                   /\ repCh'[1] = Append(repCh[1], reply[1])
                   /\ reply' = reply
          /\ replied => lstate[1] = "sendState" /\ lstate'[1] = "recvState"
          /\ (lstate[1] = "sendState" /\ lstate'[1] = "sendState") =>
                reply' = reply /\ ~consumed /\ ~replied]_vars

C28_Witness ==
    /\ lstate[1] = "recvState"
    /\ pc[Listener(1)] = "tick"
    /\ reply[1] = <<"deleted">>
    /\ repCh[1] = <<reply[1]>>
    /\ pc[Client(1)] = "recv"
    /\ reqCh[1] = <<>>
    /\ dequeued[1] # {}

\* C29: when the Dequeue of an "ok" request fails, the queue is left as it
\* is, the reply ["error", "dequeue"] is sent, the error is handed to the
\* process-wide shutdown, and no ["deleted"] reply is prepared for the
\* request.
C29_DequeueFailure ==
    [][LET t == Listener(1) IN
       (pc[t] = "L_Dequeue" /\ pc'[t] # "tick") =>
           /\ queue' = queue
           /\ \/ repCh'[1] = Append(repCh[1], <<"error", "dequeue">>)
              \/ lstate'[1] = "sendState" /\ reply'[1] = <<"error", "dequeue">>
           /\ shutdown'[1] = Append(shutdown[1], "dequeue")
           /\ ~(lstate'[1] = "sendState" /\ reply'[1] = <<"deleted">>)]_vars

\* the "deleted" replies the listener of peer 1 has prepared: those the test
\* client has read, those on the socket and the one waiting in sendState
DeletedReplies ==
    Cardinality({i \in 1..Len(test.log) : test.log[i] = <<"deleted">>})
    + Cardinality({i \in 1..Len(repCh[1]) : repCh[1][i] = <<"deleted">>})
    + (IF lstate[1] = "sendState" /\ reply[1] = <<"deleted">> THEN 1 ELSE 0)

\* the "ok" requests the listener of peer 1 has handled: those sent that are
\* neither on the socket nor being handled
OksHandled ==
    Cardinality({i \in 1..Len(test.before) : test.before[i] = "ok"})
    - Cardinality({i \in 1..Len(reqCh[1]) : reqCh[1][i] = "ok"})
    - (IF pc[Listener(1)] = "L_Dequeue" THEN 1 ELSE 0)

\* C30 as stated: the number of "deleted" replies prepared is the number of
\* messages taken off the queue.
C30_DeletedIsDequeued ==
    DeletedReplies = Cardinality(dequeued[1])

\* C30: the number of "deleted" replies prepared is the number of "ok"
\* requests handled; the number of messages taken off the queue is that
\* number as long as the queue had a message for each "ok", and stays at the
\* number of messages accepted (all of them are in the History) once there
\* are more.
C30_DeletedCountsOks ==
    LET accepted == Len(history[1]) IN
    /\ DeletedReplies = OksHandled
    /\ Cardinality(dequeued[1]) =
           IF DeletedReplies < accepted THEN DeletedReplies ELSE accepted
    /\ Len(queue[1]) + Cardinality(dequeued[1]) = accepted
    /\ Cardinality(dequeued[1]) <= DeletedReplies

C30_Witness ==
    /\ DeletedReplies = Len(history[1]) + 1
    /\ Cardinality(dequeued[1]) = Len(history[1])
    /\ test.log # <<>>
    /\ test.log[Len(test.log)] = <<"deleted">>
    /\ queue[1] = <<>>

\* the requestor of peer 2 takes a reply off its socket in this step
ReqReceives ==
    /\ rstate[2] = "receiveState"
    /\ repCh[1] # <<>>
    /\ repCh'[1] = Tail(repCh[1])

\* the requestor of peer 2 puts the frame r on its socket in this step
ReqSends(r) == reqCh'[1] = Append(reqCh[1], r)

\* C31: the requestor enters sendOKState only when HandleRemoteMessage has
\* returned nil for a message decoded from a "msg" reply, and sends "ok"
\* only from sendOKState, which it leaves with that send: every "ok" has a
\* successful HandleRemoteMessage of its own before it. A "msg" frame
\* without payload, one that does not decode and a failed
\* HandleRemoteMessage lead back to requestMsgState with nothing sent.
C31_OkOnlyAfterApply ==
    [][LET t == Requestor(2) IN
       /\ (rstate'[2] = "sendOKState" /\ rstate[2] # "sendOKState") =>
              /\ pc[t] = "ret"
              /\ call[t].op = "HandleRemoteMessage"
              /\ call[t].err = "nil"
              /\ \E i \in 1..Len(test.before) :
                     test.before[i] = <<"msg", Serialize(call[t].arg)>>
       /\ ReqSends("ok") => rstate[2] = "sendOKState" /\ rstate'[2] = "receiveState"
       /\ (ReqReceives /\ Head(repCh[1])[1] = "msg"
              /\ (Len(Head(repCh[1])) < 2 \/ DeserializeErr(Head(repCh[1])[2]) # "nil")) =>
              /\ rstate'[2] = "requestMsgState"
              /\ pc'[t] = "tick"
              /\ reqCh' = reqCh
              /\ cached' = cached /\ history' = history
       /\ (pc[t] = "ret" /\ call[t].op = "HandleRemoteMessage" /\ call[t].err # "nil"
              /\ pc'[t] # "ret") =>
              /\ rstate'[2] = "requestMsgState"
              /\ reqCh' = reqCh]_vars

\* the server has read an "ok" after a reply that did not decode and a
\* message that was applied
C31_Witness ==
    /\ test.before = << <<"msg", <<>>>>, <<"msg", Serialize(Fifth)>> >>
    /\ test.log = <<"send", "send", "ok">>
    /\ cached[2] = Fifth.ID

\* C32: in sendOKState the requestor stays in sendOKState until it has put
\* "ok" on its socket: no step from sendOKState sends "send", takes a reply
\* or enters the Orchestrator, and the step that sends "ok" is the one that
\* moves it to receiveState.
C32_StaysInSendOK ==
    [][LET t == Requestor(2) IN
       rstate[2] = "sendOKState" =>
           /\ rstate'[2] \in {"sendOKState", "receiveState"}
           /\ rstate'[2] = "receiveState" <=> ReqSends("ok")
           /\ rstate'[2] = "sendOKState" => reqCh'[1] = reqCh[1] \/ reqCh'[1] = Tail(reqCh[1])
           /\ ~ReqSends("send")
           /\ pc'[t] = "tick"
           /\ cached' = cached /\ history' = history /\ repCh'[1] \in {repCh[1]} \cup
                  {Append(repCh[1], f) : f \in Replies}]_vars

\* the "ok" for an applied message is on its way and the requestor waits
\* for the answer
C32_Witness ==
    /\ rstate[2] = "receiveState"
    /\ reqCh[1] = <<"ok">>
    /\ delivered[2] = {MsgKey(Fifth)}
    /\ test.log = <<"send">>

\* C33: every wait in receiveState, the one after "send" and the one after
\* "ok", starts with the timeout counter at 0; a receive timeout adds one to
\* it; the requestor goes back to requestMsgState without a reply exactly
\* when the counter has reached ResetLimit.
C33_GiveUpAfterN ==
    [][LET t == Requestor(2)
           gaveUp == /\ rstate[2] = "receiveState"
                     /\ rstate'[2] = "requestMsgState"
                     /\ repCh' = repCh
                     /\ pc[t] = "tick" /\ pc'[t] = "tick" IN
       /\ (rstate'[2] = "receiveState" /\ rstate[2] # "receiveState") => reset'[2] = 0
       /\ gaveUp => reset[2] = ResetLimit
       /\ reset[2] <= ResetLimit
       /\ reset'[2] \in {reset[2], reset[2] + 1, 0}
       /\ (rstate[2] = "receiveState" /\ reset[2] >= ResetLimit /\ rstate'[2] # rstate[2]) =>
              gaveUp]_vars

\* C34: an ["empty", counter] reply makes the requestor call
\* CheckRemoteState with the counter the server encoded, the call is entered
\* only for such a reply and once for it, and when it has returned the
\* requestor is in requestMsgState with nothing sent. A call that returns
\* without an error and found the counter equal to the local one and the
\* History non-empty leaves the History empty, and the counter and the queue
\* as they were.
C34_EmptyChecksState ==
    [][LET t == Requestor(2)
           data == Head(repCh[1]) IN
       /\ (ReqReceives /\ data[1] = "empty" /\ Len(data) >= 2) =>
              /\ pc'[t] = "R_CheckRemoteState"
              /\ \E c \in 0..(Modulus - 1) :
                     data[2] = PutUint64(c) /\ call'[t].remoteState = c
              /\ rstate'[2] = "receiveState"
       /\ (pc'[t] = "R_CheckRemoteState" /\ pc[t] # "R_CheckRemoteState") =>
              ReqReceives /\ data[1] = "empty" /\ Len(data) >= 2
       /\ (call'[t].op = "CheckRemoteState" /\ call[t].op # "CheckRemoteState") =>
              /\ pc[t] = "R_CheckRemoteState"
              /\ call'[t].remoteState = call[t].remoteState
       /\ pc[t] = "R_CheckRemoteState" => pc'[t] \in {"R_CheckRemoteState", "CRS_Check"}
       /\ (pc[t] = "ret" /\ call[t].op = "CheckRemoteState") =>
              /\ call[t].post = Stores(cached[2], queue[2], history[2])
              /\ (call[t].err = "nil" /\ call[t].remoteState = call[t].pre.State
                     /\ call[t].pre.History # <<>>) =>
                     /\ call[t].post.History = <<>>
                     /\ call[t].post.State = call[t].pre.State
                     /\ call[t].post.ToBeSynced = call[t].pre.ToBeSynced
              /\ pc'[t] # "ret" =>
                     /\ rstate'[2] = "requestMsgState"
                     /\ pc'[t] = "tick"
                     /\ reqCh' = reqCh
                     /\ cached' = cached /\ queue' = queue /\ history' = history]_vars

\* CheckRemoteState has returned for the counter 5 of the test and has
\* cleared the History that held the message applied before
C34_Witness ==
    LET t == Requestor(2) IN
    /\ pc[t] = "ret"
    /\ call[t].op = "CheckRemoteState"
    /\ call[t].err = "nil"
    /\ call[t].remoteState = Fifth.ID
    /\ call[t].pre.State = Fifth.ID
    /\ Len(call[t].pre.History) = 1
    /\ history[2] = <<>>
    /\ cached[2] = Fifth.ID
    /\ test.before = << <<"msg", Serialize(Fifth)>>, <<"deleted">>,
                        <<"empty", PutUint64(Fifth.ID)>> >>

\* C35: the reply ["error", "dequeue"] makes the requestor hand an error to
\* the process-wide shutdown and stay a running component until it is
\* stopped; an "error" reply with another reason or none, a "deleted" reply
\* and a reply with an unknown tag lead to requestMsgState without a
\* shutdown, without a call of the Orchestrator and with nothing sent.
C35_ErrorReplies ==
    [][LET t == Requestor(2)
           data == Head(repCh[1]) IN
       /\ (ReqReceives /\ IsDequeueError(data)) =>
              /\ pc'[t] # "exit"
              /\ \/ pc'[t] = "Shutdown"
                 \/ shutdown'[2] = Append(shutdown[2], "remote dequeue received")
       /\ (ReqReceives /\ ~IsDequeueError(data) /\ data[1] \notin {"msg", "empty"}) =>
              /\ rstate'[2] = "requestMsgState"
              /\ pc'[t] = "tick"
              /\ shutdown' = shutdown
              /\ call' = call
              /\ reqCh' = reqCh
              /\ cached' = cached /\ queue' = queue /\ history' = history]_vars

\* where the loop goroutine is while its tick function runs
InTick == {"tick", "Stop_stopped", "Stop_stopping", "Stop_set", "Stop_send", "Shutdown_send"}

\* C36: the loop takes a stop signal only at its select, never while tick
\* runs: from inside tick the goroutine goes on inside tick or back to the
\* select, and no cleanup runs and no flag of the exit is set meanwhile. A
\* tick that has called Stop or Shutdown is the last tick: runCount is 1
\* when the first tick did so.
C36_StopAtLoopTop ==
    /\ [](/\ test.n = Len(test.log)
          /\ \A i \in 1..(Len(test.log) - 1) : test.log[i] = "return"
          /\ (test.log # <<>> /\ test.log[1] # "return") => test.n = 1
          /\ pc[Loop(1)] \in {"cleanup", "defer_a", "defer_b", "exited"} =>
                 observed[1] = 1)
    /\ [][LET l == Loop(1) IN
          /\ observed'[1] # observed[1] => pc[l] = "select" /\ pc'[l] = "cleanup"
          /\ pc[l] \in InTick =>
                 /\ pc'[l] \in InTick \cup {"select"}
                 /\ pc'[l] = "select" => pc[l] = "tick"
                 /\ cleanups' = cleanups
                 /\ stopped' = stopped
                 /\ stopSignal'[1] # stopSignal[1] =>
                        stopSignal'[1] = Append(stopSignal[1], stopSignal'[1][Len(stopSignal'[1])])
          /\ test.n' # test.n =>
                 /\ pc[l] = "select"
                 /\ stopSignal[1] = <<>>
                 /\ \A i \in 1..Len(test.log) : test.log[i] = "return"]_vars

\* TestComponentRunnerStopFromInside: the first tick called Stop(1), the
\* loop has ended and tick ran once
C36_Witness ==
    /\ pc[Loop(1)] = "exited"
    /\ stopped[1]
    /\ test.log = <<"Stop">>
    /\ test.n = 1
    /\ observed[1] = 1

\* C37: every call of ExpectedOrShutdown returned true exactly when its
\* error is one of the expected ones; after a call that returned true no
\* stop signal has been sent and nothing is on the shutdown channel, so a
\* timeout handed in with ZMQTimeout expected never stops the loop; the
\* first call that returns false sends one stop signal and puts its error
\* on the shutdown channel, and its tick is the last: when the loop has
\* ended, runCount is the position of the first unexpected error.
C37_ExpectedOrShutdown ==
    LET log == test.log
        errs == test.arg.errs
        expected == {test.arg.expected[j] : j \in 1..Len(test.arg.expected)}
        l == Loop(1) IN
    /\ Len(log) <= Len(errs)
    /\ test.op # "panic" => test.n = Len(log)
    /\ \A i \in 1..Len(log) :
           /\ log[i].err = errs[i]
           /\ log[i].ret <=> log[i].err \in expected
           /\ i < Len(log) => log[i].ret
    /\ (ZMQTimeout \in expected /\ \A i \in 1..Len(log) : log[i].err = ZMQTimeout) =>
           /\ sent[1] = 0
           /\ pc[l] \in {"select", "tick", "exit"}
    /\ (log = <<>> \/ log[Len(log)].ret) =>
           /\ sent[1] = 0 /\ ~stopping[1] /\ ~stopped[1]
           /\ shutdown[1] = <<>>
           /\ pc[l] \in {"select", "tick", "exit"}
    /\ (log # <<>> /\ ~log[Len(log)].ret) =>
           /\ sent[1] <= 1
           /\ shutdown[1] \in {<<>>, <<log[Len(log)].err>>}
           /\ shutdown[1] # <<>> => sent[1] = 1
           /\ pc[l] \notin {"exit"}
    /\ pc[l] = "exited" =>
           /\ log # <<>> /\ ~log[Len(log)].ret
           /\ shutdown[1] = <<log[Len(log)].err>>
           /\ test.n = Len(log)
           /\ errs[test.n] \notin expected
           /\ \A i \in 1..(test.n - 1) : errs[i] \in expected

\* TestComponentRunnerExpectedOrShutdown: known2, known1, then a strange
\* error; the loop has ended after three ticks and WaitForStop has returned
C37_Witness ==
    /\ test.arg.errs = <<errKnown2, errKnown1, errStrange>>
    /\ test.arg.expected = <<errKnown1, errKnown2>>
    /\ pc[Loop(1)] = "exited"
    /\ pc[Waiter] = "done"
    /\ test.n = 3
    /\ shutdown[1] = <<errStrange>>

\* C38: between the calls the counter in memory is the value the database
\* holds (0 while nothing was written). An Update whose save failed has
\* returned the error with the counter and the database as they were before
\* the call; one whose save succeeded has put the new counter, the old one
\* plus the id, in the database; Close and OpenState give the counter that
\* was in memory before.
C38_CachedIsPersisted ==
    /\ test.op # "Update" => cached[1] = loadFromDisk(test.disk)
    /\ test.log = <<>> => test.disk = <<>>
    /\ test.op = "UpdateErr" =>
           /\ test.err = "save"
           /\ cached[1] = test.before[1]
           /\ test.disk = test.ret
    /\ test.op = "Updated" =>
           /\ test.err = "nil"
           /\ cached[1] = (test.before[1] + test.arg) % Modulus
           /\ test.disk = PutUint64((test.before[1] + test.arg) % Modulus)
    /\ test.op = "Reopen" =>
           /\ cached[1] = test.before[1]
           /\ test.disk = test.ret
           /\ test.log = <<>> => cached[1] = 0

\* the store was reopened after a saved update, a failed one and another
\* saved one
C38_Witness ==
    /\ test.op = "Reopen"
    /\ test.log = <<20, 40>>
    /\ test.n = 4
    /\ cached[1] = 60
    /\ test.disk = PutUint64(60)

\* C39: an iterator whose Next has returned the end has returned as many
\* messages as the stack held when the iterator took stackLock, and no Next
\* has failed, whatever another goroutine pushed, popped or cleared while
\* the iterator was being created.
C39_IteratorCount ==
    pc[Tester] \in {"open", "closed"} =>
        /\ Len(test.ret) <= Len(test.before)
        /\ test.op = "NextNil" => Len(test.ret) = Len(test.before) /\ test.err = "nil"

\* C40: no goroutine stands at the send of Accord.Shutdown with the channel
\* full after Listen has taken the one error it reads: nobody would receive
\* any more, the call would never return and, made from inside an
\* Orchestrator call, would keep processMutex for ever.
C40_ShutdownReturns ==
    \A t \in Threads :
        (pc[t] \in {"Shutdown", "Shutdown_send"} /\ Len(shutdown[1]) >= ShutdownCap) =>
            pc[Main] = "Listen"

RECURSIVE SumIds(_)
SumIds(S) == IF S = {} THEN 0
             ELSE LET t == CHOOSE x \in S : TRUE IN SubmitId(t) + SumIds(S \ {t})

Done(p) == {t \in Submitters(p) : pc[t] = "done"}

\* C5: n concurrent HandleNewMessage calls without a failure: once the calls
\* of a set of submitters have all returned (and no other call is under way)
\* the State Counter is the sum of their ids mod 2^Width and the queue and
\* the history each hold one entry per call.
C5_ConcurrentNew ==
    (processMutex[1] = NoThread /\ shutdown[1] = <<>>) =>
        /\ cached[1] = SumIds(Done(1)) % Modulus
        /\ Size(queue[1]) = Cardinality(Done(1))
        /\ Len(history[1]) = Cardinality(Done(1))

\* all five submitters have returned: state 15, sizes 5 and 5
C5_Witness ==
    /\ Done(1) = Submitters(1)
    /\ shutdown[1] = <<>>
    /\ cached[1] = ((NumSubmitters * (NumSubmitters + 1)) \div 2) % Modulus
    /\ Size(queue[1]) = NumSubmitters
    /\ Len(history[1]) = NumSubmitters

\* C6: HandleRemoteMessage(msg) entered with State.GetCurrent() = msg.StateAt
\* and completing without a failure never calls ShouldProcess, calls Process
\* exactly once with fromRemote = true, advances the counter by msg.ID and
\* grows the history by exactly one.
C6_RemoteInSync ==
    /\ \A t \in Threads :
          (call[t].op = "HandleRemoteMessage" /\ call[t].pre.State = call[t].arg.StateAt)
              => call[t].ShouldProcessCount = 0 /\ call[t].ProcessCount <= 1
    /\ LET c == last[1] IN
       (c.op = "HandleRemoteMessage" /\ c.err = "nil" /\ c.pre.State = c.arg.StateAt) =>
           /\ c.ShouldProcessCount = 0
           /\ c.ProcessCount = 1
           /\ c.fromRemote
           /\ c.post.State = (c.pre.State + c.arg.ID) % Modulus
           /\ Len(c.post.History) = Len(c.pre.History) + 1
           /\ c.post.ToBeSynced = c.pre.ToBeSynced

C6_Witness ==
    LET c == last[1] IN
    /\ c.op = "HandleRemoteMessage" /\ c.err = "nil"
    /\ c.pre.State = c.arg.StateAt
    /\ c.pre.State > 0
    /\ Len(c.post.History) = 2

\* C7: HandleRemoteMessage(msg) entered with State.GetCurrent() # msg.StateAt,
\* ShouldProcess returning false and no failure: ShouldProcess is called
\* exactly once, Process is not called, the counter still advances by
\* msg.ID and the history is unchanged.
C7_RemoteDivergedSkipped ==
    LET c == last[1] IN
    (c.op = "HandleRemoteMessage" /\ c.err = "nil"
        /\ c.pre.State # c.arg.StateAt /\ ~c.shouldProcess) =>
        /\ c.ShouldProcessCount = 1
        /\ c.ProcessCount = 0
        /\ c.post.State = (c.pre.State + c.arg.ID) % Modulus
        /\ c.post.History = c.pre.History

C7_Witness ==
    LET c == last[1] IN
    /\ c.op = "HandleRemoteMessage" /\ c.err = "nil"
    /\ c.pre.State # c.arg.StateAt /\ ~c.shouldProcess
    /\ Len(c.pre.History) > 0
    /\ c.post.State # c.pre.State

C9_CheckUnequalDiverged ==
    LET c == last[1] IN
    (c.op = "CheckRemoteState" /\ c.err = "nil" /\ c.remoteState # c.pre.State) =>
        /\ c.post = c.pre
        /\ c.ret = TRUE

\* C10: at most one goroutine of a peer is inside HandleNewMessage,
\* HandleRemoteMessage, CheckRemoteState or Status, and the snapshot Status
\* returns is the content of the stores as they were when Status took the
\* lock, that is as the last completed call left them.
C10_MutualExclusion ==
    /\ \A p \in Peers : Cardinality(InCritical(p)) <= 1
    /\ \A p \in Peers : InCritical(p) \subseteq {processMutex[p]}
    /\ \A t \in Threads :
          pc[t] = "Status_Read" =>
              call[t].pre = Stores(cached[PeerOf(t)], queue[PeerOf(t)], history[PeerOf(t)])
    /\ LET c == last[1] IN
       c.op = "Status" =>
           c.status = StatusOf(c.pre.State, c.pre.ToBeSynced, c.pre.History)

\* a Status call waits at the lock while a HandleNewMessage is half done
C10_Witness ==
    /\ \E t \in Callers(1) : pc[t] = "HNM_Enqueue"
    /\ \E t \in Callers(1) : pc[t] = "idle"
    /\ last[1].op = "Status"
    /\ last[1].status.State > 0

====
